---- MODULE Spec2Model ----
(***************************************************************************)
(* A model of the xmarket back end.                                        *)
(*                                                                         *)
(*  - the matching service: orderbook/engine.py (OrderBook, Engine) and    *)
(*    the request handlers of orderbook/main.py that persist its results;  *)
(*  - the ingest service: backend/ingest.py, backend/blender.py and the    *)
(*    audit endpoints of backend/admin.py.                                 *)
(*                                                                         *)
(* Prices and quantities are floats in the source; they are modelled as    *)
(* integers (prices in points, scores in hundredths of a point), which is  *)
(* exact for the values the model draws.                                   *)
(***************************************************************************)
EXTENDS Integers, Sequences, FiniteSets, TLC

(***************************************************************************)
(* Bounds of the model                                                     *)
(***************************************************************************)
MaxOrders == 3

MaxCancels == 1

Prices == {99, 100, 101}

Qtys == {10, 25}

Sides == {"buy", "sell"}

(***************************************************************************)
(* State of the matching service                                           *)
(***************************************************************************)
VARIABLES
    ord,          \* the Order objects ever created, indexed by order_id
    bids,         \* OrderBook.bids: price -> FIFO queue of order ids
    asks,         \* OrderBook.asks
    bid_prices,   \* OrderBook.bid_prices, descending
    ask_prices,   \* OrderBook.ask_prices, ascending
    orders,       \* the keys of OrderBook.orders
    db_orders,    \* table orders (OrderDB): order_id -> row
    trade_history,\* table trade_history (TradeDB), in insertion order
    resp,         \* the response of the last request
    ncancel       \* number of cancel requests issued

bookVars == <<ord, bids, asks, bid_prices, ask_prices, orders,
              db_orders, trade_history, resp, ncancel>>

(***************************************************************************)
(* Helpers                                                                 *)
(***************************************************************************)
Min(a, b) == IF a <= b THEN a ELSE b

Max(a, b) == IF a >= b THEN a ELSE b

\* list.sort(): ascending insertion of x into the sorted sequence s
RECURSIVE InsertAsc(_, _)
InsertAsc(s, x) ==
    IF s = <<>> THEN <<x>>
    ELSE IF x <= Head(s) THEN <<x>> \o s
    ELSE <<Head(s)>> \o InsertAsc(Tail(s), x)

RECURSIVE SortAsc(_)
SortAsc(s) == IF s = <<>> THEN <<>> ELSE InsertAsc(SortAsc(Tail(s)), Head(s))

RECURSIVE Reverse(_)
Reverse(s) == IF s = <<>> THEN <<>> ELSE Append(Reverse(Tail(s)), Head(s))

\* list.sort() where reverse=True was meant
SortDesc_ascending(s) == SortAsc(s)

\* list.sort(reverse=True)
SortDesc(s) == Reverse(SortAsc(s))

\* list.remove(x) / deque.remove(x): drops the first occurrence of x
RECURSIVE RemoveFirst(_, _)
RemoveFirst(s, x) ==
    IF s = <<>> THEN <<>>
    ELSE IF Head(s) = x THEN Tail(s)
    ELSE <<Head(s)>> \o RemoveFirst(Tail(s), x)

SeqToSet(s) == {s[i] : i \in DOMAIN s}

\* a delete that leaves the key in the dict
DelKey_kept(d, k) == d

\* del d[k]
DelKey(d, k) == [p \in (DOMAIN d) \ {k} |-> d[p]]

\* d[k] = v
PutKey(d, k, v) == [p \in (DOMAIN d) \cup {k} |-> IF p = k THEN v ELSE d[p]]

(***************************************************************************)
(* Order (orderbook/engine.py)                                             *)
(***************************************************************************)
\* Order.__init__
NewOrder(id, side, price, qty, created_at) ==
    [order_id |-> id, side |-> side, price |-> price, qty |-> qty,
     filled |-> 0, created_at |-> created_at, status |-> "open"]

\* Order.remaining
Remaining(o) == o.qty - o.filled

\* _update_status without its partial branch
UpdateStatus_noPartial(o) ==
    IF o.filled >= o.qty THEN [o EXCEPT !.status = "filled"]
    ELSE [o EXCEPT !.status = "open"]

\* OrderBook._update_status
UpdateStatus(o) ==
    IF o.filled >= o.qty THEN [o EXCEPT !.status = "filled"]
    ELSE IF o.filled > 0 THEN [o EXCEPT !.status = "partial"]
    ELSE [o EXCEPT !.status = "open"]

\* order.filled += trade_qty, followed by _update_status(order)
Fill(o, q) == UpdateStatus([o EXCEPT !.filled = @ + q])

(***************************************************************************)
(* OrderBook (orderbook/engine.py).  A book value b is the record          *)
(* [bids, asks, bid_prices, ask_prices, orders, ord].                      *)
(***************************************************************************)
Book == [bids |-> bids, asks |-> asks, bid_prices |-> bid_prices,
         ask_prices |-> ask_prices, orders |-> orders, ord |-> ord]

\* level_orders[0]: the resting order an aggressor meets at a level
FrontOrder(level) == level[1]

\* level_orders.popleft()
PopLeft(level) == Tail(level)

\* appendleft instead of append
LevelAppend_front(level, id) == <<id>> \o level

\* self.bids[order.price].append(order)
LevelAppend(level, id) == Append(level, id)

\* trade_qty = min(order.remaining, ask_order.remaining)
TradeQty(o, m) == Min(Remaining(o), Remaining(m))

\* self.ask_prices[0]
BestAsk(b) == b.ask_prices[1]

\* self.bid_prices[0]
BestBid(b) == b.bid_prices[1]

\* a buy that also stops at a price equal to the best ask
BuyStops_inclusive(o, best_ask_price) == o.price <= best_ask_price

\* if order.price < best_ask_price: break
BuyStops(o, best_ask_price) == o.price < best_ask_price

\* if order.price > best_bid_price: break
SellStops(o, best_bid_price) == o.price > best_bid_price

\* The inner while loop of _match_buy at one price level.  r is the record
\* [b |-> book, trades |-> raw trades (buy, sell, qty)].
RECURSIVE MatchBuyLevel(_, _, _)
MatchBuyLevel(r, id, price) ==
    LET b == r.b
        level_orders == b.asks[price]
    IN  IF Remaining(b.ord[id]) > 0 /\ level_orders # <<>> THEN
            LET ask_id    == FrontOrder(level_orders)
                trade_qty == TradeQty(b.ord[id], b.ord[ask_id])
                ord1      == [b.ord EXCEPT ![id] = Fill(@, trade_qty),
                                           ![ask_id] = Fill(@, trade_qty)]
                trades1   == Append(r.trades,
                                [buy |-> id, sell |-> ask_id, qty |-> trade_qty])
            IN  IF ord1[ask_id].status = "filled" THEN
                    MatchBuyLevel(
                        [b |-> [b EXCEPT !.ord = ord1,
                                         !.asks[price] = PopLeft(level_orders),
                                         !.orders = @ \ {ask_id}],
                         trades |-> trades1], id, price)
                ELSE [b |-> [b EXCEPT !.ord = ord1], trades |-> trades1]
        ELSE r

\* OrderBook._match_buy
RECURSIVE MatchBuy(_, _)
MatchBuy(r, id) ==
    LET b == r.b
    IN  IF Remaining(b.ord[id]) > 0 /\ b.ask_prices # <<>> THEN
            LET best_ask_price == BestAsk(b)
            IN  IF BuyStops(b.ord[id], best_ask_price) THEN r
                ELSE
                    LET r1 == MatchBuyLevel(r, id, best_ask_price)
                        b1 == r1.b
                        b2 == IF b1.asks[best_ask_price] = <<>>
                              THEN [b1 EXCEPT
                                      !.asks = DelKey(@, best_ask_price),
                                      !.ask_prices = Tail(@)]
                              ELSE b1
                    IN  MatchBuy([b |-> b2, trades |-> r1.trades], id)
        ELSE r

\* The inner while loop of _match_sell at one price level
RECURSIVE MatchSellLevel(_, _, _)
MatchSellLevel(r, id, price) ==
    LET b == r.b
        level_orders == b.bids[price]
    IN  IF Remaining(b.ord[id]) > 0 /\ level_orders # <<>> THEN
            LET bid_id    == FrontOrder(level_orders)
                trade_qty == TradeQty(b.ord[id], b.ord[bid_id])
                ord1      == [b.ord EXCEPT ![id] = Fill(@, trade_qty),
                                           ![bid_id] = Fill(@, trade_qty)]
                trades1   == Append(r.trades,
                                [buy |-> bid_id, sell |-> id, qty |-> trade_qty])
            IN  IF ord1[bid_id].status = "filled" THEN
                    MatchSellLevel(
                        [b |-> [b EXCEPT !.ord = ord1,
                                         !.bids[price] = PopLeft(level_orders),
                                         !.orders = @ \ {bid_id}],
                         trades |-> trades1], id, price)
                ELSE [b |-> [b EXCEPT !.ord = ord1], trades |-> trades1]
        ELSE r

\* OrderBook._match_sell
RECURSIVE MatchSell(_, _)
MatchSell(r, id) ==
    LET b == r.b
    IN  IF Remaining(b.ord[id]) > 0 /\ b.bid_prices # <<>> THEN
            LET best_bid_price == BestBid(b)
            IN  IF SellStops(b.ord[id], best_bid_price) THEN r
                ELSE
                    LET r1 == MatchSellLevel(r, id, best_bid_price)
                        b1 == r1.b
                        b2 == IF b1.bids[best_bid_price] = <<>>
                              THEN [b1 EXCEPT
                                      !.bids = DelKey(@, best_bid_price),
                                      !.bid_prices = Tail(@)]
                              ELSE b1
                    IN  MatchSell([b |-> b2, trades |-> r1.trades], id)
        ELSE r

\* OrderBook._add_to_book
AddToBook(b, id) ==
    LET o == b.ord[id]
    IN  IF o.side = "buy" THEN
            LET b1 == IF o.price \notin DOMAIN b.bids
                      THEN [b EXCEPT
                              !.bids = PutKey(@, o.price, <<>>),
                              !.bid_prices = SortDesc(Append(@, o.price))]
                      ELSE b
            IN  [b1 EXCEPT !.bids[o.price] = LevelAppend(@, id)]
        ELSE
            LET b1 == IF o.price \notin DOMAIN b.asks
                      THEN [b EXCEPT
                              !.asks = PutKey(@, o.price, <<>>),
                              !.ask_prices = SortAsc(Append(@, o.price))]
                      ELSE b
            IN  [b1 EXCEPT !.asks[o.price] = LevelAppend(@, id)]

\* OrderBook.add_order: match, then rest the remainder
AddOrder(b, id) ==
    LET r0 == [b |-> b, trades |-> <<>>]
        r  == IF b.ord[id].side = "buy" THEN MatchBuy(r0, id)
              ELSE MatchSell(r0, id)
        o  == r.b.ord[id]
    IN  IF Remaining(o) > 0 /\ o.status # "filled"
        THEN [b |-> [AddToBook(r.b, id) EXCEPT !.orders = @ \cup {id}],
              trades |-> r.trades]
        ELSE r

\* a cancel that only marks the order and leaves it in its level
CancelInBook_marked(b, id) ==
    [b EXCEPT !.orders = @ \ {id}, !.ord[id].status = "cancelled"]

\* OrderBook.cancel_order, for an order_id in self.orders
CancelInBook(b, id) ==
    LET o  == b.ord[id]
        b1 == IF o.side = "buy" THEN
                  IF o.price \in DOMAIN b.bids THEN
                      IF id \in SeqToSet(b.bids[o.price]) THEN
                          LET lv == RemoveFirst(b.bids[o.price], id)
                          IN  IF lv = <<>>
                              THEN [b EXCEPT
                                      !.bids = DelKey(@, o.price),
                                      !.bid_prices = RemoveFirst(@, o.price)]
                              ELSE [b EXCEPT !.bids[o.price] = lv]
                      ELSE b
                  ELSE b
              ELSE
                  IF o.price \in DOMAIN b.asks THEN
                      IF id \in SeqToSet(b.asks[o.price]) THEN
                          LET lv == RemoveFirst(b.asks[o.price], id)
                          IN  IF lv = <<>>
                              THEN [b EXCEPT
                                      !.asks = DelKey(@, o.price),
                                      !.ask_prices = RemoveFirst(@, o.price)]
                              ELSE [b EXCEPT !.asks[o.price] = lv]
                      ELSE b
                  ELSE b
    IN  [b1 EXCEPT !.orders = @ \ {id}, !.ord[id].status = "cancelled"]

(***************************************************************************)
(* Engine.place_order: the trade price is the maker's price                *)
(***************************************************************************)
\* the aggressor's price taken for the trade price
TradePrice_aggressor(b, side, t) ==
    IF side = "buy" THEN b.ord[t.buy].price ELSE b.ord[t.sell].price

TradePrice(b, side, t) ==
    IF side = "buy" THEN b.ord[t.sell].price ELSE b.ord[t.buy].price

ToTradeResponse(b, side, t) ==
    [price |-> TradePrice(b, side, t), qty |-> t.qty,
     buy_order_id |-> t.buy, sell_order_id |-> t.sell]

RawToTrades(b, side, raw) ==
    [i \in 1..Len(raw) |-> ToTradeResponse(b, side, raw[i])]

(***************************************************************************)
(* Persistence done by the handlers of orderbook/main.py                   *)
(***************************************************************************)
\* OrderDB(...) built from the response of Engine.place_order
OrderRow(o) ==
    [side |-> o.side, price |-> o.price, qty |-> o.qty, filled |-> o.filled,
     status |-> o.status, created_at |-> o.created_at]

\* cp_order.filled = trade.qty: assignment instead of increment
UpdateCounterparty_assign(row, qty) ==
    [row EXCEPT !.filled = qty,
                !.status = IF qty >= row.qty THEN "filled" ELSE "partial"]

\* cp_order.filled += trade.qty and the status that follows
UpdateCounterparty(row, qty) ==
    LET f == row.filled + qty
    IN  [row EXCEPT !.filled = f,
                    !.status = IF f >= row.qty THEN "filled" ELSE "partial"]

\* counterparty_id of a trade, from the side of the incoming order
CounterpartyId(side, t) ==
    IF side = "buy" THEN t.sell_order_id ELSE t.buy_order_id

\* the loop over trades: update the counterparty row of each, in order
RECURSIVE PersistTrades(_, _, _)
PersistTrades(rows, side, trades) ==
    IF trades = <<>> THEN rows
    ELSE LET cp == CounterpartyId(side, Head(trades))
             rows1 == IF cp \in DOMAIN rows
                      THEN [rows EXCEPT ![cp] = UpdateCounterparty(@, Head(trades).qty)]
                      ELSE rows
         IN  PersistTrades(rows1, side, Tail(trades))

(***************************************************************************)
(* Requests of the matching service                                        *)
(***************************************************************************)
BookInit ==
    /\ ord = <<>>
    /\ bids = <<>>
    /\ asks = <<>>
    /\ bid_prices = <<>>
    /\ ask_prices = <<>>
    /\ orders = {}
    /\ db_orders = <<>>
    /\ trade_history = <<>>
    /\ resp = [op |-> "none"]
    /\ ncancel = 0

\* POST /orders (main.place_order)
PlaceOrder(side, price, qty) ==
    /\ Len(ord) < MaxOrders
    /\ LET id  == Len(ord) + 1
           o   == NewOrder(id, side, price, qty, id)
           b0  == [Book EXCEPT !.ord = Append(ord, o)]
           r   == AddOrder(b0, id)
           b   == r.b
           trs == RawToTrades(b, side, r.trades)
       IN  /\ ord' = b.ord
           /\ bids' = b.bids
           /\ asks' = b.asks
           /\ bid_prices' = b.bid_prices
           /\ ask_prices' = b.ask_prices
           /\ orders' = b.orders
           /\ db_orders' = PersistTrades(Append(db_orders, OrderRow(b.ord[id])),
                                         side, trs)
           /\ trade_history' = trade_history \o trs
           /\ resp' = [op |-> "place", code |-> 201, order_id |-> id,
                       status |-> b.ord[id].status, filled |-> b.ord[id].filled,
                       trades |-> trs]
    /\ UNCHANGED ncancel

\* POST /cancel (main.cancel_order)
CancelOrder(id) ==
    /\ ncancel < MaxCancels
    /\ ncancel' = ncancel + 1
    /\ IF id \notin orders THEN
           /\ resp' = [op |-> "cancel", code |-> 404, order_id |-> id]
           /\ UNCHANGED <<ord, bids, asks, bid_prices, ask_prices, orders,
                          db_orders, trade_history>>
       ELSE
           LET b == CancelInBook(Book, id)
           IN  /\ ord' = b.ord
               /\ bids' = b.bids
               /\ asks' = b.asks
               /\ bid_prices' = b.bid_prices
               /\ ask_prices' = b.ask_prices
               /\ orders' = b.orders
               /\ db_orders' = IF id \in DOMAIN db_orders
                               THEN [db_orders EXCEPT ![id].status = b.ord[id].status]
                               ELSE db_orders
               /\ resp' = [op |-> "cancel", code |-> 200, order_id |-> id,
                           status |-> b.ord[id].status,
                           filled |-> b.ord[id].filled]
               /\ UNCHANGED trade_history

\* pressure.calculate_market_price(book), in hundredths of a point
calculate_market_price(b) ==
    IF b.bid_prices # <<>> /\ b.ask_prices # <<>>
        THEN (100 * (b.bid_prices[1] + b.ask_prices[1])) \div 2
    ELSE IF b.bid_prices # <<>> THEN 100 * b.bid_prices[1]
    ELSE IF b.ask_prices # <<>> THEN 100 * b.ask_prices[1]
    ELSE 5000

BookNext ==
    \/ \E side \in Sides, price \in Prices, qty \in Qtys :
           PlaceOrder(side, price, qty)
    \/ \E id \in 1..MaxOrders : CancelOrder(id)

(***************************************************************************)
(* The ingest service (backend/ingest.py, backend/blender.py,              *)
(* backend/admin.py) over the tables of migrations/versions/001.           *)
(* Scores and prices are in hundredths of a point, confidence and weights  *)
(* in hundredths.                                                          *)
(***************************************************************************)
MaxIngests == 2

MaxDecides == 2

\* the worker processes that serve ingest requests
Handlers == {1, 2}

\* config/constants.py
SUSPICIOUS_DELTA == 15

DELTA_CAP == 20

\* EWMA_ALPHA = 0.25, in hundredths
EWMA_ALPHA == 25

\* The payloads the producer may send.  confidence is the value
\* compute_confidence returns for the payload's sources:
\*   min(1.0, round(log(1 + num_independent_sources) * avg_trust, 2))
\* e1: 1 source of trust 0.85 -> 0.59;  e2: 3 sources of trust 0.9 -> 1.0;
\* e3 names two symbols, of which ALT is a stock only where an admin
\* created it;  e4 breaks the impact_points range;
\* e5: 1 source of trust 0.5 -> 0.35.
\* symbol is stocks[0], source is sources[0].id.
EventCatalog ==
    [e1 |-> [impact_points |-> 10,  symbol |-> "TEST", confidence |-> 59,
             source |-> "s1", stocks |-> <<"TEST">>],
     e2 |-> [impact_points |-> 18,  symbol |-> "TEST", confidence |-> 100,
             source |-> "s2", stocks |-> <<"TEST">>],
     e3 |-> [impact_points |-> 10,  symbol |-> "TEST", confidence |-> 59,
             source |-> "s1", stocks |-> <<"TEST", "ALT">>],
     e4 |-> [impact_points |-> 100, symbol |-> "TEST", confidence |-> 59,
             source |-> "s1", stocks |-> <<"TEST">>],
     e5 |-> [impact_points |-> -5,  symbol |-> "TEST", confidence |-> 35,
             source |-> "s1", stocks |-> <<"TEST">>]]

EventIds == DOMAIN EventCatalog

\* StockCreate bodies an admin may post: (market_weight, reality_weight)
StockWeights == {<<60, 40>>, <<60, 60>>}

\* StockCreate bodies: (min_price, max_price); both are only bounded below
StockRanges == {<<0, 10000>>, <<2000, 10000>>, <<0, 30000>>}

\* what GET /market/{symbol}/pressure may answer; 5000 is also the default
\* get_market_price falls back to
MarketPrices == {5000, 9000}

\* how the GET ends: with a market_price, or with a failure (connection
\* refused, timeout, error status)
FetchFailed == -1

MarketReplies == {FetchFailed, 9000}

\* a request body that is no JSON document
NotJson == "not_json"

\* the requests sent to the ingest endpoint: (body, signature), the
\* X-Reality-Signature header being missing, mismatching or valid
IngestRequests ==
    {<<e, "valid">> : e \in EventIds}
        \cup {<<"e1", "missing">>, <<"e4", "mismatch">>, <<NotJson, "mismatch">>}

Approvers == {"admin1"}

VARIABLES
    fk_enforced,   \* the schema has llm_audit.event_id REFERENCES events
    stocks,        \* table stocks: symbol -> (market_weight, reality_weight,
                   \*                          min_price, max_price)
    scores,        \* table scores: symbol -> row
    events,        \* table events, in insertion order
    llm_audit,     \* table llm_audit, in insertion order; id = position
    score_changes, \* table score_changes, in insertion order
    hpc,           \* per handler: where the ingest request stands
    hev,           \* per handler: the event_id of its request
    hloc,          \* per handler: the locals of apply_event_to_scores
    ingest_log,    \* the responses of the ingest requests, in order
    aresp,         \* the response of the last admin request
    ndecide        \* number of decide requests issued

\* the requests of the matching service
VARIABLES
    req_type       \* per order: the `type` field of its OrderCreate body

marketVars == <<req_type>>

OrderTypes == {"limit", "market"}

\* the prices of the typed order requests
TypedPrices == {100}

\* the clock and the scoring engine (backend/app/scoring/reality_engine.py)
VARIABLES
    now,           \* the time, in half-lives of the decay (TAU_SECONDS * ln 2)
    score_record,  \* RealityEngine's Score row of the stock, or NoRecord
    read,          \* the answer to the last score read
    napply         \* number of RealityEngine.apply_event calls

scoreVars == <<now, score_record, read, napply>>

\* the life of the matching service's process
VARIABLES
    persist_failed \* the transaction of a POST /orders request was rolled back

recoverVars == <<persist_failed>>

\* a signed request on its way from the producer to the ingest endpoint
VARIABLES
    request,       \* its body, its headers, and what the producer signed
    verdict        \* what verify_reality_signature said about it

signVars == <<request, verdict>>

ingestVars == <<fk_enforced, stocks, scores, events, llm_audit, score_changes,
                hpc, hev, hloc, ingest_log, aresp, ndecide>>

\* the websocket fan-out of the order book API (orderbook/app/main.py)
VARIABLES
    active_connections, \* the list active_connections
    sock,          \* per websocket: new, open, broken (the peer is gone) or
                   \* closed (websocket_endpoint has returned)
    bpc,           \* per request: where its broadcast stands
    bcur,          \* per request: the connection the for loop is sending to
    bnext,         \* per request: the index the list iterator reads next
    disconnected,  \* per request: the local list `disconnected`
    bresp          \* per request: the status the caller received, 0 if none

broadcastVars == <<active_connections, sock, bpc, bcur, bnext, disconnected,
                   bresp>>

\* the worker threads of the matching service serving POST /orders
VARIABLES
    book_objs,     \* the OrderBook objects created: the orders each received
    books,         \* Engine.books: symbol -> index of its OrderBook object
    tpc,           \* per thread: where its place_order call stands
    tbook          \* per thread: the local `book` of Engine.place_order

threadVars == <<book_objs, books, tpc, tbook>>

\* the LLM rate limiter of the pollers (reality_engine/rate_limiter.py)
VARIABLES
    redis_tokens,  \* the Redis key llm:token_bucket:tokens, or Nil
    redis_refill,  \* the Redis key llm:token_bucket:last_refill, or Nil
    bucket_time,   \* time.time(), in units of 3600 / rate seconds
    cpc,           \* per poller: where its consume() call stands
    cloc,          \* per poller: the locals now, tokens, last_refill
    granted,       \* number of consume() calls that returned True
    nconsume       \* number of consume() calls started

bucketVars == <<redis_tokens, redis_refill, bucket_time, cpc, cloc, granted,
                nconsume>>

\* the variables of the components beside the trading and ingest services
asideVars == <<broadcastVars, threadVars, bucketVars>>

vars == <<ord, bids, asks, bid_prices, ask_prices, orders,
          db_orders, trade_history, resp, ncancel,
          fk_enforced, stocks, scores, events, llm_audit, score_changes,
          hpc, hev, hloc, ingest_log, aresp, ndecide,
          now, score_record, read, napply, req_type,
          persist_failed, request, verdict,
          active_connections, sock, bpc, bcur, bnext, disconnected, bresp,
          book_objs, books, tpc, tbook,
          redis_tokens, redis_refill, bucket_time, cpc, cloc, granted,
          nconsume>>

Abs(x) == IF x < 0 THEN -x ELSE x

Clamp(x, lo, hi) == Max(lo, Min(hi, x))

\* rows of a table that satisfy a condition
RowsOf(table, event_id) ==
    {i \in DOMAIN table : table[i].event_id = event_id}

(***************************************************************************)
(* backend/ingest.py                                                       *)
(***************************************************************************)
\* Field(ge=-20, le=20) of RealityEventRequest.impact_points
ImpactInRange(x) == x >= -DELTA_CAP /\ x <= DELTA_CAP

\* RealityEventRequest(**payload): impact_points within [-20, 20]
SchemaValid(e) == ImpactInRange(EventCatalog[e].impact_points)

\* event_exists: SELECT COUNT(*) FROM events WHERE event_id = :event_id
event_exists(evs, e) == Cardinality(RowsOf(evs, e)) > 0

\* validate_stocks_exist: the symbols of the event that are no stock
invalid_stocks(stk, e) == SeqToSet(EventCatalog[e].stocks) \ DOMAIN stk

\* abs(event.impact_points) > SUSPICIOUS_DELTA
ImpactSuspicious(x) == Abs(x) > SUSPICIOUS_DELTA

\* the suspicion check of ingest_reality_event for event e
Suspicious(e) == ImpactSuspicious(EventCatalog[e].impact_points)

\* the events table without its unique constraint
UniqueViolation_none(evs, e) == FALSE

\* uq_events_event_id: an INSERT of a known event_id raises IntegrityError
UniqueViolation(evs, e) == \E i \in DOMAIN evs : evs[i].event_id = e

\* the foreign key of llm_audit.event_id: the INSERT needs the events row
FkViolation(evs, e) == fk_enforced /\ ~ \E i \in DOMAIN evs : evs[i].event_id = e

\* the CHECK constraints of table scores
ScoreInBounds(row) ==
    /\ row.reality_score >= 0 /\ row.reality_score <= 10000
    /\ row.final_price >= 0 /\ row.final_price <= 10000
    /\ row.confidence >= 0 /\ row.confidence <= 100

\* the tables created by migration 001 carry the CHECK constraints as well
\* as the foreign keys; tables created without it carry neither
CheckViolation(row) == fk_enforced /\ ~ScoreInBounds(row)

\* the row persist_event inserts
EventRow(e) ==
    [event_id |-> e, symbol |-> EventCatalog[e].symbol,
     impact_points |-> EventCatalog[e].impact_points,
     source |-> EventCatalog[e].source, processed |-> FALSE]

\* the row create_llm_audit inserts
AuditRow(e) ==
    [event_id |-> e, symbol |-> EventCatalog[e].symbol,
     impact |-> EventCatalog[e].impact_points,
     approved |-> FALSE, approved_by |-> "NULL"]

\* UPDATE events SET processed = true WHERE event_id = :event_id
MarkProcessed(evs, e) ==
    [i \in DOMAIN evs |->
        IF evs[i].event_id = e THEN [evs[i] EXCEPT !.processed = TRUE]
        ELSE evs[i]]

\* worker h answers the request with body e and signature sig
Answer(h, e, sig, kind, code) ==
    /\ ingest_log' = Append(ingest_log,
                            [event_id |-> e, sig |-> sig,
                             kind |-> kind, code |-> code])
    /\ hpc' = [hpc EXCEPT ![h] = "idle"]

\* an answer given after the signature was verified
Respond(h, kind, code) == Answer(h, hev'[h], "valid", kind, code)

(***************************************************************************)
(* backend/blender.py                                                      *)
(***************************************************************************)
\* compute_new_reality_score
compute_new_reality_score(current_score, impact_points) ==
    Clamp(current_score + EWMA_ALPHA * impact_points, 0, 10000)

\* get_market_price: the fetched market_price, 50.0 when the fetch failed
get_market_price(reply) == IF reply = FetchFailed THEN 5000 ELSE reply

\* blend_final_price
blend_final_price(reality_score, market_price, market_weight, reality_weight) ==
    Clamp((market_weight * market_price + reality_weight * reality_score) \div 100,
          0, 10000)

\* the Score row apply_event_to_scores writes for event e
ScoreRow(e, new_score, market_price, w) ==
    [reality_score |-> new_score,
     final_price |-> blend_final_price(new_score, market_price, w[1], w[2]),
     confidence |-> EventCatalog[e].confidence,
     last_updated |-> now]

\* the ScoreChange row apply_event_to_scores inserts for event e
ScoreChangeRow(e, old_score, new_score) ==
    [symbol |-> EventCatalog[e].symbol, old_score |-> old_score,
     new_score |-> new_score, delta |-> new_score - old_score, event_id |-> e]

(***************************************************************************)
(* Requests of the ingest service                                          *)
(***************************************************************************)
IngestInit ==
    /\ fk_enforced \in BOOLEAN
    /\ stocks = <<>>
    /\ scores = <<>>
    /\ events = <<>>
    /\ llm_audit = <<>>
    /\ score_changes = <<>>
    /\ hpc = [h \in Handlers |-> "idle"]
    /\ hev = [h \in Handlers |-> "e1"]
    /\ hloc = [h \in Handlers |->
                  [old_score |-> 0, new_score |-> 0, fetched |-> TRUE]]
    /\ ingest_log = <<>>
    /\ aresp = [op |-> "none"]
    /\ ndecide = 0

\* the number of ingest requests received so far
Started == Len(ingest_log) + Cardinality({h \in Handlers : hpc[h] # "idle"})

\* the Score row create_stock inserts
InitialScore(range) ==
    [reality_score |-> (range[1] + range[2]) \div 2,
     final_price |-> (range[1] + range[2]) \div 2,
     confidence |-> 50,
     last_updated |-> now]

\* POST /api/v1/admin/stocks (admin.create_stock)
CreateStock(symbol, w, range) ==
    /\ IF Abs((w[1] + w[2]) - 100) > 1 THEN
           /\ aresp' = [op |-> "create_stock", code |-> 400]
           /\ UNCHANGED <<stocks, scores>>
       ELSE IF symbol \in DOMAIN stocks THEN
           /\ aresp' = [op |-> "create_stock", code |-> 409]
           /\ UNCHANGED <<stocks, scores>>
       ELSE IF CheckViolation(InitialScore(range)) THEN
           /\ aresp' = [op |-> "create_stock", code |-> 500]
           /\ UNCHANGED <<stocks, scores>>
       ELSE
           /\ stocks' = PutKey(stocks, symbol, w \o range)
           /\ scores' = PutKey(scores, symbol, InitialScore(range))
           /\ aresp' = [op |-> "create_stock", code |-> 201]
    /\ UNCHANGED <<fk_enforced, events, llm_audit, score_changes,
                   hpc, hev, hloc, ingest_log, ndecide>>

\* POST /api/v1/reality/ingest up to the first write: signature header,
\* JSON body, signature, schema, idempotency, stocks, suspicion.  No
\* signature matches a body that is no JSON document.
IngestCheck(h, e, sig) ==
    /\ hpc[h] = "idle"
    /\ Started < MaxIngests
    /\ e = NotJson => sig # "valid"
    /\ IF sig = "missing" THEN
           Answer(h, e, sig, "unauthorized", 401) /\ UNCHANGED hev
       ELSE IF e = NotJson THEN
           Answer(h, e, sig, "invalid_json", 400) /\ UNCHANGED hev
       ELSE IF sig # "valid" THEN
           Answer(h, e, sig, "unauthorized", 401) /\ UNCHANGED hev
       ELSE IF ~SchemaValid(e) THEN
           Answer(h, e, sig, "validation", 422) /\ UNCHANGED hev
       ELSE IF event_exists(events, e) THEN
           Answer(h, e, sig, "duplicate", 201) /\ UNCHANGED hev
       ELSE IF invalid_stocks(stocks, e) # {} THEN
           Answer(h, e, sig, "bad_request", 400) /\ UNCHANGED hev
       ELSE /\ hev' = [hev EXCEPT ![h] = e]
            /\ hpc' = [hpc EXCEPT ![h] = IF Suspicious(e) THEN "audit"
                                         ELSE "persist"]
            /\ UNCHANGED ingest_log
    /\ UNCHANGED <<fk_enforced, stocks, scores, events, llm_audit,
                   score_changes, hloc, aresp, ndecide>>

\* create_llm_audit(session, event), committed
IngestAudit(h) ==
    /\ hpc[h] = "audit"
    /\ UNCHANGED hev
    /\ IF FkViolation(events, hev[h]) THEN
           /\ Respond(h, "IntegrityError", 500)
           /\ UNCHANGED llm_audit
       ELSE
           /\ llm_audit' = Append(llm_audit, AuditRow(hev[h]))
           /\ hpc' = [hpc EXCEPT ![h] = "persist_audited"]
           /\ UNCHANGED ingest_log
    /\ UNCHANGED <<fk_enforced, stocks, scores, events, score_changes,
                   hloc, aresp, ndecide>>

\* persist_event(session, event) of the suspicious branch, then the
\* PendingReviewResponse
IngestPersistAudited(h) ==
    /\ hpc[h] = "persist_audited"
    /\ UNCHANGED hev
    /\ IF UniqueViolation(events, hev[h]) THEN
           /\ Respond(h, "IntegrityError", 500)
           /\ UNCHANGED events
       ELSE
           /\ events' = Append(events, EventRow(hev[h]))
           /\ Respond(h, "pending_review", 201)
    /\ UNCHANGED <<fk_enforced, stocks, scores, llm_audit, score_changes,
                   hloc, aresp, ndecide>>

\* persist_event(session, event) of the normal flow
IngestPersist(h) ==
    /\ hpc[h] = "persist"
    /\ UNCHANGED hev
    /\ IF UniqueViolation(events, hev[h]) THEN
           /\ Respond(h, "IntegrityError", 500)
           /\ UNCHANGED events
       ELSE
           /\ events' = Append(events, EventRow(hev[h]))
           /\ hpc' = [hpc EXCEPT ![h] = "apply"]
           /\ UNCHANGED ingest_log
    /\ UNCHANGED <<fk_enforced, stocks, scores, llm_audit, score_changes,
                   hloc, aresp, ndecide>>

\* a table whose rows were written by statements that never committed
Uncommitted_kept(before, written) == written

\* what a table holds when the transaction that wrote to it did not commit:
\* the UPDATEs and the INSERT of apply_event_to_scores share one
\* session.commit()
Uncommitted(before, written) == before

\* apply_event_to_scores raising in its writes or in session.commit(): the
\* transaction is lost as a whole; the handler's except block logs through
\* the unbound name `logger` and the request ends with status 500
IngestApplyWriteFailed(h, reply) ==
    /\ hpc[h] = "apply_write"
    /\ UNCHANGED <<hev, hloc>>
    /\ LET e      == hev[h]
           symbol == EventCatalog[e].symbol
           w      == stocks[symbol]
       IN  /\ scores' = Uncommitted(scores,
                  [scores EXCEPT ![symbol] =
                      ScoreRow(e, hloc[h].new_score,
                               get_market_price(reply), w)])
           /\ score_changes' = Uncommitted(score_changes,
                  Append(score_changes,
                      ScoreChangeRow(e, hloc[h].old_score, hloc[h].new_score)))
           /\ events' = Uncommitted(events, MarkProcessed(events, e))
    /\ Respond(h, "NameError", 500)
    /\ UNCHANGED <<fk_enforced, stocks, llm_audit, aresp, ndecide>>

\* the worker serving the request dies (killed process, lost power): what
\* was committed stays, the rest of the handler never runs, the client gets
\* no status
IngestCrash(h) ==
    /\ hpc[h] # "idle"
    /\ UNCHANGED hev
    /\ Respond(h, "crash", 0)
    /\ UNCHANGED <<fk_enforced, stocks, scores, events, llm_audit,
                   score_changes, hloc, aresp, ndecide>>

\* apply_event_to_scores up to `await get_market_price`: read the score row
\* and compute the new reality score
IngestApplyRead(h) ==
    /\ hpc[h] = "apply"
    /\ LET symbol    == EventCatalog[hev[h]].symbol
           old_score == scores[symbol].reality_score
       IN  hloc' = [hloc EXCEPT ![h] =
                      [fetched |-> hloc[h].fetched,
                       old_score |-> old_score,
                       new_score |-> compute_new_reality_score(
                                        old_score,
                                        EventCatalog[hev[h]].impact_points)]]
    /\ hpc' = [hpc EXCEPT ![h] = "apply_write"]
    /\ UNCHANGED <<fk_enforced, stocks, scores, events, llm_audit,
                   score_changes, hev, ingest_log, aresp, ndecide>>

\* apply_event_to_scores after the market price arrived: blend, update the
\* Score row, insert the ScoreChange, mark the event processed, commit; then
\* the handler logs through the name `logger`, which backend/ingest.py never
\* binds: the NameError raised in the try block is caught, the except block
\* raises it again, and the request ends with status 500
IngestApplyWrite(h, reply) ==
    /\ hpc[h] = "apply_write"
    /\ UNCHANGED hev
    /\ hloc' = [hloc EXCEPT ![h].fetched = (reply # FetchFailed)]
    /\ LET e      == hev[h]
           symbol == EventCatalog[e].symbol
           w      == stocks[symbol]
           market_price == get_market_price(reply)
       IN  /\ scores' = [scores EXCEPT ![symbol] =
                  ScoreRow(e, hloc[h].new_score, market_price, w)]
           /\ score_changes' = Append(score_changes,
                  ScoreChangeRow(e, hloc[h].old_score, hloc[h].new_score))
           /\ events' = MarkProcessed(events, e)
    /\ Respond(h, "NameError", 500)
    /\ UNCHANGED <<fk_enforced, stocks, llm_audit, aresp, ndecide>>

(***************************************************************************)
(* backend/admin.py: audits                                                *)
(***************************************************************************)
\* list_audits(pending_only=True): WHERE approved = false, newest first
ListPending == Reverse(SelectSeq([i \in DOMAIN llm_audit |->
                                     [id |-> i, approved |-> llm_audit[i].approved]],
                                 LAMBDA r : r.approved = FALSE))

\* `if audit[2]`: the check that guards a second decision
AlreadyProcessed(audit) == audit.approved

\* POST /api/v1/admin/audits/{audit_id}/approve (admin.approve_audit)
Decide(audit_id, approved, approved_by) ==
    /\ ndecide < MaxDecides
    /\ ndecide' = ndecide + 1
    /\ IF audit_id \notin DOMAIN llm_audit THEN
           /\ aresp' = [op |-> "decide", audit_id |-> audit_id, code |-> 404]
           /\ UNCHANGED <<llm_audit, events>>
       ELSE IF AlreadyProcessed(llm_audit[audit_id]) THEN
           /\ aresp' = [op |-> "decide", audit_id |-> audit_id, code |-> 409]
           /\ UNCHANGED <<llm_audit, events>>
       ELSE
           /\ llm_audit' = [llm_audit EXCEPT ![audit_id] =
                  [@ EXCEPT !.approved = approved,
                            !.approved_by = approved_by]]
           /\ events' = IF approved
                        THEN MarkProcessed(events, llm_audit[audit_id].event_id)
                        ELSE events
           /\ aresp' = [op |-> "decide", audit_id |-> audit_id, code |-> 200,
                        status |-> IF approved THEN "approved" ELSE "rejected"]
    /\ UNCHANGED <<fk_enforced, stocks, scores, score_changes,
                   hpc, hev, hloc, ingest_log>>

IngestNext ==
    \/ \E w \in StockWeights, range \in StockRanges :
           CreateStock("TEST", w, range)
    \/ \E h \in Handlers, req \in IngestRequests :
           IngestCheck(h, req[1], req[2])
    \/ \E h \in Handlers : IngestAudit(h)
    \/ \E h \in Handlers : IngestPersistAudited(h)
    \/ \E h \in Handlers : IngestPersist(h)
    \/ \E h \in Handlers : IngestApplyRead(h)
    \/ \E h \in Handlers, reply \in MarketReplies :
           IngestApplyWrite(h, reply)
    \/ \E a \in 1..MaxIngests, ap \in BOOLEAN, by \in Approvers :
           Decide(a, ap, by)

(***************************************************************************)
(* Reading scores.  backend/public_api.py reads table scores;              *)
(* backend/app/scoring/reality_engine.py keeps its own Score row, here in  *)
(* thousandths of a point (confidence in thousandths).                     *)
(***************************************************************************)
MaxTime == 2

MaxApplies == 2

\* event_points values passed to RealityEngine.apply_event
EventPoints == {16, -16, 48}

NoRecord == [score |-> -1, confidence |-> -1, last_updated |-> -1]

NEUTRAL_SCORE == 50000

MIN_SCORE == 0

MAX_SCORE == 100000

RECURSIVE Pow2(_)
Pow2(n) == IF n = 0 THEN 1 ELSE 2 * Pow2(n - 1)

\* score * decay_factor + neutral * (1 - decay_factor), with
\* decay_factor = exp(-time_diff / TAU_SECONDS) = 1 / 2^time_diff
Decay(score, neutral, time_diff) ==
    neutral + (score - neutral) \div Pow2(time_diff)

\* 0.1 * math.log(1 + num_related_docs) for num_related_docs = 1
ConfidenceBoost == 69

ScoreInit ==
    /\ now = 0
    /\ score_record = NoRecord
    /\ read = [src |-> "none"]
    /\ napply = 0

\* time passes
Tick ==
    /\ now < MaxTime
    /\ now' = now + 1
    /\ UNCHANGED <<score_record, read, napply>>

\* RealityEngine.apply_event(stock_id, event_points, source_id)
ApplyEvent(event_points) ==
    /\ napply < MaxApplies
    /\ napply' = napply + 1
    /\ LET current_score == IF score_record = NoRecord THEN NEUTRAL_SCORE
                            ELSE score_record.score
           last_updated  == IF score_record = NoRecord THEN now
                            ELSE score_record.last_updated
           confidence    == IF score_record = NoRecord THEN 100
                            ELSE score_record.confidence
           decayed_score == Decay(current_score, NEUTRAL_SCORE,
                                  now - last_updated)
           capped_points == Max(-DELTA_CAP, Min(DELTA_CAP, event_points))
           new_score_raw == decayed_score + 1000 * capped_points
           new_score     == (EWMA_ALPHA * new_score_raw
                             + (100 - EWMA_ALPHA) * decayed_score) \div 100
       IN  score_record' =
               [score |-> Max(MIN_SCORE, Min(MAX_SCORE, new_score)),
                confidence |-> Min(1000, confidence + ConfidenceBoost),
                last_updated |-> now]
    /\ UNCHANGED <<now, read>>

\* RealityEngine.get_score(stock_id)
EngineGetScore ==
    /\ read' = IF score_record = NoRecord THEN [src |-> "engine", found |-> FALSE]
               ELSE [src |-> "engine", found |-> TRUE, at |-> now,
                     stored |-> score_record,
                     score |-> Max(MIN_SCORE, Min(MAX_SCORE,
                                  Decay(score_record.score, NEUTRAL_SCORE,
                                        now - score_record.last_updated))),
                     confidence |-> score_record.confidence]
    /\ UNCHANGED <<now, score_record, napply>>

\* RealityEngine.decay_scores(): the batch job that stores the decayed score
DecayScores ==
    /\ score_record # NoRecord
    /\ score_record.last_updated < now
    /\ score_record' =
           [score_record EXCEPT
               !.score = Max(MIN_SCORE, Min(MAX_SCORE,
                             Decay(score_record.score, NEUTRAL_SCORE,
                                   now - score_record.last_updated))),
               !.last_updated = now]
    /\ UNCHANGED <<now, read, napply>>

\* GET /api/v1/scores/{symbol} (public_api.get_score)
ApiGetScore(symbol) ==
    /\ read' = IF symbol \notin DOMAIN scores THEN [src |-> "api", found |-> FALSE]
               ELSE [src |-> "api", found |-> TRUE, at |-> now,
                     stored |-> scores[symbol],
                     score |-> scores[symbol].reality_score,
                     confidence |-> scores[symbol].confidence]
    /\ UNCHANGED <<now, score_record, napply>>

ScoreNext ==
    \/ Tick /\ UNCHANGED ingestVars
    \/ \E event_points \in EventPoints :
           ApplyEvent(event_points) /\ UNCHANGED ingestVars
    \/ EngineGetScore /\ UNCHANGED ingestVars
    \/ DecayScores /\ UNCHANGED ingestVars
    \/ ApiGetScore("TEST") /\ UNCHANGED ingestVars
    \/ \E w \in StockWeights, range \in StockRanges :
           CreateStock("TEST", w, range) /\ UNCHANGED scoreVars

(***************************************************************************)
(* Order requests with their type.  Engine.place_order builds the Order    *)
(* from side, price, qty and user_id only: order_create.type is never read *)
(***************************************************************************)
MarketInit == req_type = <<>>

\* POST /orders with body {side, type, price, qty}
PlaceTypedOrder(type, side, price, qty) ==
    /\ PlaceOrder(side, price, qty)
    /\ req_type' = Append(req_type, type)

MarketNext ==
    \/ \E type \in OrderTypes, side \in Sides, price \in TypedPrices,
          qty \in Qtys : PlaceTypedOrder(type, side, price, qty)
    \/ \E id \in 1..MaxOrders : CancelOrder(id) /\ UNCHANGED req_type

(***************************************************************************)
(* Failure and restart of the matching service (orderbook/main.py,         *)
(* orderbook/persistence.py).  The model follows the service up to the     *)
(* first request whose transaction is rolled back and the restart after it *)
(***************************************************************************)
\* the prices of the order requests
RecoverPrices == {100, 101}

RecoverInit == persist_failed = FALSE

\* POST /orders when the database raises before or at db.commit(): the
\* engine has run, the except block answers 500 and get_db rolls the
\* transaction back
PlaceOrderFailed(side, price, qty) ==
    /\ Len(ord) < MaxOrders
    /\ ~persist_failed
    /\ persist_failed' = TRUE
    /\ LET id == Len(ord) + 1
           o  == NewOrder(id, side, price, qty, id)
           b0 == [Book EXCEPT !.ord = Append(ord, o)]
           b  == AddOrder(b0, id).b
       IN  /\ ord' = b.ord
           /\ bids' = b.bids
           /\ asks' = b.asks
           /\ bid_prices' = b.bid_prices
           /\ ask_prices' = b.ask_prices
           /\ orders' = b.orders
           /\ resp' = [op |-> "place", code |-> 500, order_id |-> id]
    /\ UNCHANGED <<db_orders, trade_history, ncancel>>

\* ORDER BY created_at over the rows whose ids are in S
RECURSIVE OrderByCreatedAt(_, _)
OrderByCreatedAt(rows, S) ==
    IF S = {} THEN <<>>
    ELSE LET first == CHOOSE x \in S :
                          \A y \in S : rows[x].created_at <= rows[y].created_at
         IN  <<first>> \o OrderByCreatedAt(rows, S \ {first})

\* persistence.load_active_orders: the ids of the OPEN and PARTIAL rows
load_active_orders(rows) ==
    OrderByCreatedAt(rows, {id \in DOMAIN rows :
                               rows[id].status \in {"open", "partial"}})

\* the Order built from a row, without its filled quantity
OrderFromRow_unfilled(id, row) ==
    [NewOrder(id, row.side, row.price, row.qty, row.created_at)
        EXCEPT !.status = row.status]

\* the Order replay_orders builds from a row
OrderFromRow(id, row) ==
    [NewOrder(id, row.side, row.price, row.qty, row.created_at)
        EXCEPT !.filled = row.filled, !.status = row.status]

\* persistence.replay_orders: each order goes straight into its level
RECURSIVE replay_orders(_, _, _)
replay_orders(b, rows, ids) ==
    IF ids = <<>> THEN b
    ELSE LET id == Head(ids)
             b1 == [b EXCEPT !.ord[id] = OrderFromRow(id, rows[id])]
             b2 == [AddToBook(b1, id) EXCEPT !.orders = @ \cup {id}]
         IN  replay_orders(b2, rows, Tail(ids))

\* the process is started again: ENGINE = Engine(), then lifespan replays
\* the active orders.  ord keeps the Order objects of the old process that
\* the new book does not hold
Restart ==
    /\ LET empty == [bids |-> <<>>, asks |-> <<>>, bid_prices |-> <<>>,
                     ask_prices |-> <<>>, orders |-> {}, ord |-> ord]
           b == replay_orders(empty, db_orders, load_active_orders(db_orders))
       IN  /\ ord' = b.ord
           /\ bids' = b.bids
           /\ asks' = b.asks
           /\ bid_prices' = b.bid_prices
           /\ ask_prices' = b.ask_prices
           /\ orders' = b.orders
    /\ resp' = [op |-> "restart"]
    /\ UNCHANGED <<db_orders, trade_history, ncancel, persist_failed>>

RecoverNext ==
    \/ \E side \in Sides, price \in RecoverPrices, qty \in Qtys :
           ~persist_failed /\ PlaceOrder(side, price, qty)
               /\ UNCHANGED recoverVars
    \/ \E side \in Sides, price \in RecoverPrices, qty \in Qtys :
           PlaceOrderFailed(side, price, qty)
    \/ \E id \in 1..MaxOrders :
           ~persist_failed /\ CancelOrder(id) /\ UNCHANGED recoverVars
    \/ Restart

(***************************************************************************)
(* Signing (reality_engine/poster.py) and verifying (backend/auth.py).     *)
(* A dict is the sequence of its (key, value) pairs in insertion order; a  *)
(* JSON text is the sequence of pairs it spells with its two separators.   *)
(***************************************************************************)
\* the keys of a payload, in the order of sorted()
KeyNames == <<"event_id", "impact_points">>

\* the event dicts the producer builds
EventDicts ==
    {<<<<"event_id", id>>, <<"impact_points", x>>>> :
        id \in {"e1", "e2"}, x \in {10, 18}}
    \cup {<<<<"impact_points", x>>, <<"event_id", id>>>> :
        id \in {"e1", "e2"}, x \in {10, 18}}

\* REALITY_API_SECRET of the backend
SharedSecret == "secret"

\* REALITY_API_SECRET values a poster may run with
Secrets == {SharedSecret, "other"}

\* the place of a key in sorted order
KeyRank(k) == CHOOSE i \in DOMAIN KeyNames : KeyNames[i] = k

\* sort_keys=True: the pairs of a dict by ascending key
sort_keys(obj) ==
    LET ranks == SortAsc([i \in DOMAIN obj |-> KeyRank(obj[i][1])])
    IN  [i \in DOMAIN obj |->
            obj[CHOOSE j \in DOMAIN obj : KeyRank(obj[j][1]) = ranks[i]]]

\* json.dumps(obj, separators=(item_sep, key_sep), sort_keys=sorted)
json_dumps(obj, item_sep, key_sep, sorted) ==
    [pairs |-> IF sorted THEN sort_keys(obj) ELSE obj,
     item_sep |-> item_sep, key_sep |-> key_sep]

\* json.loads(text): the dict of the pairs in the order of the text
json_loads(text) == text.pairs

\* hmac.new(secret, text, hashlib.sha256).hexdigest(), taken as free of
\* collisions: the digest stands for the (secret, text) it was made of
hmac_sha256(secret, text) == <<secret, text>>

\* poster.sign_event
sign_event(event, secret) ==
    hmac_sha256(secret, json_dumps(event, ",", ":", TRUE))

\* a signer that keeps the default separators of json.dumps
sign_payload_spaced(secret, payload) ==
    hmac_sha256(secret, json_dumps(payload, ", ", ": ", TRUE))

\* auth.sign_payload
sign_payload(secret, payload) ==
    hmac_sha256(secret, json_dumps(payload, ",", ":", TRUE))

\* auth.verify_signature
verify_signature(payload, signature, secret) ==
    sign_payload(secret, payload) = signature

SignInit ==
    /\ request = [body |-> json_dumps(<<>>, ", ", ": ", FALSE),
                  headers |-> <<>>, signed |-> <<>>, secret |-> SharedSecret]
    /\ verdict = "idle"

\* poster.post_event_to_backend: requests.post(json=event) writes the body
\* with the default separators and the dict's own key order
PostEvent(event, secret) ==
    /\ request' = [body |-> json_dumps(event, ", ", ": ", FALSE),
                   headers |-> [h \in {"X-Reality-Signature"} |->
                                   sign_event(event, secret)],
                   signed |-> event, secret |-> secret]
    /\ verdict' = "sent"

\* an intermediary writes the same JSON value again, in another key order
\* or without the whitespace
Reencode(obj, item_sep, key_sep) ==
    /\ verdict # "idle"
    /\ SeqToSet(obj) = SeqToSet(json_loads(request.body))
    /\ request' = [request EXCEPT
                      !.body = json_dumps(obj, item_sep, key_sep, FALSE)]
    /\ verdict' = "sent"

\* an intermediary changes the value of field i of the body
Tamper(i, obj) ==
    /\ verdict # "idle"
    /\ i \in DOMAIN request.body.pairs
    /\ request.body.pairs[i][1] = obj[i][1]
    /\ request.body.pairs[i][2] # obj[i][2]
    /\ request' = [request EXCEPT !.body.pairs[i] = obj[i]]
    /\ verdict' = "sent"

\* auth.verify_reality_signature, for a body that is a JSON document
VerifyRealitySignature ==
    /\ verdict # "idle"
    /\ verdict' =
           IF "X-Reality-Signature" \notin DOMAIN request.headers
               THEN "missing"
           ELSE IF ~verify_signature(json_loads(request.body),
                                     request.headers["X-Reality-Signature"],
                                     SharedSecret)
               THEN "invalid"
           ELSE "accepted"
    /\ UNCHANGED request

SignNext ==
    \/ \E event \in EventDicts, secret \in Secrets : PostEvent(event, secret)
    \/ \E obj \in EventDicts, item_sep \in {",", ", "}, key_sep \in {":", ": "} :
           Reencode(obj, item_sep, key_sep)
    \/ \E i \in DOMAIN KeyNames, obj \in EventDicts : Tamper(i, obj)
    \/ VerifyRealitySignature

(***************************************************************************)
(* The websocket fan-out of orderbook/app/main.py.  Every `await           *)
(* connection.send_json` is a point where the event loop may run another   *)
(* coroutine; the code between two awaits is one step.                     *)
(***************************************************************************)
\* the websockets that connect to /ws/orders
Conns == {"c1", "c2"}

\* the requests (place_order, cancel_order) whose update is broadcast
Callers == {1, 2}

NoConn == "none"

BroadcastInit ==
    /\ active_connections = <<>>
    /\ sock = [c \in Conns |-> "new"]
    /\ bpc = [r \in Callers |-> "idle"]
    /\ bcur = [r \in Callers |-> NoConn]
    /\ bnext = [r \in Callers |-> 1]
    /\ disconnected = [r \in Callers |-> <<>>]
    /\ bresp = [r \in Callers |-> 0]

\* list.remove(x): the list without the first x; the caller checks x is there
ListRemove(l, x) ==
    LET i == CHOOSE k \in DOMAIN l :
                 l[k] = x /\ \A j \in 1..(k - 1) : l[j] # x
    IN  SubSeq(l, 1, i - 1) \o SubSeq(l, i + 1, Len(l))

\* `for conn in disconnected: active_connections.remove(conn)`: the list
\* left behind, and whether a remove raised ValueError
RECURSIVE RemoveDisconnected(_, _)
RemoveDisconnected(l, disc) ==
    IF disc = <<>> THEN [list |-> l, raised |-> FALSE]
    ELSE IF Head(disc) \notin SeqToSet(l) THEN [list |-> l, raised |-> TRUE]
    ELSE RemoveDisconnected(ListRemove(l, Head(disc)), Tail(disc))

\* the for loop of a broadcast asks the list iterator for its next
\* connection: it sends to it, or the loop is over, the failed sends are
\* removed and the request is answered (500 when the broadcast raised)
BroadcastAdvance(r, disc) ==
    IF bnext[r] <= Len(active_connections) THEN
        /\ bcur' = [bcur EXCEPT ![r] = active_connections[bnext[r]]]
        /\ bnext' = [bnext EXCEPT ![r] = bnext[r] + 1]
        /\ bpc' = [bpc EXCEPT ![r] = "sending"]
        /\ disconnected' = [disconnected EXCEPT ![r] = disc]
        /\ UNCHANGED <<active_connections, bresp>>
    ELSE
        LET rm == RemoveDisconnected(active_connections, disc)
        IN  /\ active_connections' = rm.list
            /\ bresp' = [bresp EXCEPT ![r] = IF rm.raised THEN 500 ELSE 200]
            /\ bpc' = [bpc EXCEPT ![r] = "done"]
            /\ bcur' = [bcur EXCEPT ![r] = NoConn]
            /\ disconnected' = [disconnected EXCEPT ![r] = disc]
            /\ UNCHANGED bnext

\* place_order / cancel_order after the book operation committed:
\* broadcast_orderbook_update starts its loop
BroadcastStart(r) ==
    /\ bpc[r] = "idle"
    /\ BroadcastAdvance(r, <<>>)
    /\ UNCHANGED sock

\* `await connection.send_json(message)` returns or raises, the bare except
\* collects the connection, and the loop goes on
BroadcastSend(r) ==
    /\ bpc[r] = "sending"
    /\ BroadcastAdvance(r, IF sock[bcur[r]] = "open" THEN disconnected[r]
                           ELSE Append(disconnected[r], bcur[r]))
    /\ UNCHANGED sock

\* websocket_endpoint: accept and append
WsConnect(c) ==
    /\ sock[c] = "new"
    /\ sock' = [sock EXCEPT ![c] = "open"]
    /\ active_connections' = Append(active_connections, c)
    /\ UNCHANGED <<bpc, bcur, bnext, disconnected, bresp>>

\* the peer goes away: sends fail from now on
WsBreak(c) ==
    /\ sock[c] = "open"
    /\ sock' = [sock EXCEPT ![c] = "broken"]
    /\ UNCHANGED <<active_connections, bpc, bcur, bnext, disconnected, bresp>>

\* websocket_endpoint: receive_text raises WebSocketDisconnect and the
\* handler removes its websocket (a ValueError ends the handler alike)
WsDisconnect(c) ==
    /\ sock[c] = "broken"
    /\ sock' = [sock EXCEPT ![c] = "closed"]
    /\ active_connections' =
           IF c \in SeqToSet(active_connections)
               THEN ListRemove(active_connections, c)
           ELSE active_connections
    /\ UNCHANGED <<bpc, bcur, bnext, disconnected, bresp>>

BroadcastNext ==
    \/ \E r \in Callers : BroadcastStart(r)
    \/ \E r \in Callers : BroadcastSend(r)
    \/ \E c \in Conns : WsConnect(c)
    \/ \E c \in Conns : WsBreak(c)
    \/ \E c \in Conns : WsDisconnect(c)

(***************************************************************************)
(* POST /orders served by threads.  main.place_order is a plain `def`, so  *)
(* the server runs each request on a thread of its pool; the interpreter   *)
(* may switch threads between any two statements of Engine.get_book.       *)
(* An OrderBook object is the sequence of the orders add_order received.   *)
(***************************************************************************)
\* the requests of one symbol served at the same time, one thread each
Threads == {1, 2, 3}

ThreadInit ==
    /\ book_objs = <<>>
    /\ books = <<>>
    /\ tpc = [t \in Threads |-> "start"]
    /\ tbook = [t \in Threads |-> 0]

\* Engine.get_book: `if symbol not in self.books`
GetBookCheck(t, symbol) ==
    /\ tpc[t] = "start"
    /\ tpc' = [tpc EXCEPT ![t] = IF symbol \notin DOMAIN books THEN "create"
                                 ELSE "fetch"]
    /\ UNCHANGED <<book_objs, books, tbook>>

\* Engine.get_book: `self.books[symbol] = OrderBook(symbol)`
GetBookCreate(t, symbol) ==
    /\ tpc[t] = "create"
    /\ book_objs' = Append(book_objs, <<>>)
    /\ books' = PutKey(books, symbol, Len(book_objs) + 1)
    /\ tpc' = [tpc EXCEPT ![t] = "fetch"]
    /\ UNCHANGED tbook

\* Engine.get_book: `return self.books[symbol]`
GetBookReturn(t, symbol) ==
    /\ tpc[t] = "fetch"
    /\ tbook' = [tbook EXCEPT ![t] = books[symbol]]
    /\ tpc' = [tpc EXCEPT ![t] = "add"]
    /\ UNCHANGED <<book_objs, books>>

\* Engine.place_order: `book.add_order(order)`, the order being the thread's
ThreadAddOrder(t) ==
    /\ tpc[t] = "add"
    /\ book_objs' = [book_objs EXCEPT ![tbook[t]] = Append(@, t)]
    /\ tpc' = [tpc EXCEPT ![t] = "done"]
    /\ UNCHANGED <<books, tbook>>

ThreadNext ==
    \/ \E t \in Threads : GetBookCheck(t, "TEST")
    \/ \E t \in Threads : GetBookCreate(t, "TEST")
    \/ \E t \in Threads : GetBookReturn(t, "TEST")
    \/ \E t \in Threads : ThreadAddOrder(t)

(***************************************************************************)
(* RedisTokenBucket (reality_engine/rate_limiter.py) shared by the poller  *)
(* instances.  Every Redis command is a round trip of its own, so it is a  *)
(* step of its own.  One unit of time refills one token.                   *)
(***************************************************************************)
\* rate_per_hour, which is also the capacity
BucketCapacity == 2

MaxConsumes == 3

\* the poller instances (or threads) sharing the bucket
Pollers == {1, 2}

\* redis.get of a key that does not exist
Nil == -1

BucketInit ==
    /\ redis_tokens = Nil
    /\ redis_refill = Nil
    /\ bucket_time = 0
    /\ cpc = [p \in Pollers |-> "idle"]
    /\ cloc = [p \in Pollers |-> [now |-> 0, tokens |-> 0, last_refill |-> 0]]
    /\ granted = 0
    /\ nconsume = 0

\* time passes
BucketTick ==
    /\ bucket_time < MaxTime
    /\ bucket_time' = bucket_time + 1
    /\ UNCHANGED <<redis_tokens, redis_refill, cpc, cloc, granted, nconsume>>

\* tokens = min(capacity, tokens + (elapsed / 3600) * rate)
Refilled(tokens, last_refill, t) ==
    Min(BucketCapacity, tokens + (t - last_refill))

\* consume(): now = time.time(); tokens = redis.get(tokens_key)
ConsumeGetTokens(p) ==
    /\ cpc[p] = "idle"
    /\ nconsume < MaxConsumes
    /\ nconsume' = nconsume + 1
    /\ cloc' = [cloc EXCEPT ![p] =
                  [now |-> bucket_time,
                   tokens |-> IF redis_tokens = Nil THEN BucketCapacity
                              ELSE redis_tokens,
                   last_refill |-> 0]]
    /\ cpc' = [cpc EXCEPT ![p] = "get_refill"]
    /\ UNCHANGED <<redis_tokens, redis_refill, bucket_time, granted>>

\* last_refill = redis.get(refill_key); refill; `if tokens >= 1.0`: take one,
\* or return False
ConsumeGetRefill(p) ==
    /\ cpc[p] = "get_refill"
    /\ LET last_refill == IF redis_refill = Nil THEN cloc[p].now
                          ELSE redis_refill
           tokens == Refilled(cloc[p].tokens, last_refill, cloc[p].now)
       IN  IF tokens >= 1 THEN
               /\ cloc' = [cloc EXCEPT ![p].tokens = tokens - 1,
                                       ![p].last_refill = last_refill]
               /\ cpc' = [cpc EXCEPT ![p] = "set_tokens"]
           ELSE
               /\ cloc' = [cloc EXCEPT ![p].tokens = tokens,
                                       ![p].last_refill = last_refill]
               /\ cpc' = [cpc EXCEPT ![p] = "idle"]
    /\ UNCHANGED <<redis_tokens, redis_refill, bucket_time, granted, nconsume>>

\* redis.set(tokens_key, tokens)
ConsumeSetTokens(p) ==
    /\ cpc[p] = "set_tokens"
    /\ redis_tokens' = cloc[p].tokens
    /\ cpc' = [cpc EXCEPT ![p] = "set_refill"]
    /\ UNCHANGED <<redis_refill, bucket_time, cloc, granted, nconsume>>

\* redis.set(refill_key, now); return True
ConsumeSetRefill(p) ==
    /\ cpc[p] = "set_refill"
    /\ redis_refill' = cloc[p].now
    /\ granted' = granted + 1
    /\ cpc' = [cpc EXCEPT ![p] = "idle"]
    /\ UNCHANGED <<redis_tokens, bucket_time, cloc, nconsume>>

BucketNext ==
    \/ BucketTick
    \/ \E p \in Pollers : ConsumeGetTokens(p)
    \/ \E p \in Pollers : ConsumeGetRefill(p)
    \/ \E p \in Pollers : ConsumeSetTokens(p)
    \/ \E p \in Pollers : ConsumeSetRefill(p)

\* the components beside the trading and ingest services, at start
AsideInit == BroadcastInit /\ ThreadInit /\ BucketInit

(***************************************************************************)
(* Specifications                                                          *)
(***************************************************************************)
\* the matching service alone
SpecBookInit ==
    /\ BookInit /\ IngestInit /\ ScoreInit /\ MarketInit /\ RecoverInit /\ SignInit /\ AsideInit
    /\ fk_enforced = TRUE

SpecBookNext ==
    BookNext /\ UNCHANGED <<ingestVars, scoreVars, marketVars, recoverVars, signVars, asideVars>>

SpecBook == SpecBookInit /\ [][SpecBookNext]_vars

\* the ingest service alone
SpecIngestInit ==
    BookInit /\ IngestInit /\ ScoreInit /\ MarketInit /\ RecoverInit /\ SignInit /\ AsideInit

SpecIngestNext ==
    IngestNext /\ UNCHANGED <<bookVars, scoreVars, marketVars, recoverVars, signVars, asideVars>>

SpecIngest == SpecIngestInit /\ [][SpecIngestNext]_vars

\* reading and decaying scores
SpecScoreInit ==
    BookInit /\ IngestInit /\ ScoreInit /\ MarketInit /\ RecoverInit /\ SignInit /\ AsideInit

SpecScoreNext == ScoreNext /\ UNCHANGED <<bookVars, marketVars, recoverVars, signVars, asideVars>>

SpecScore == SpecScoreInit /\ [][SpecScoreNext]_vars

\* the matching service with typed order requests
SpecMarketInit ==
    /\ BookInit /\ IngestInit /\ ScoreInit /\ MarketInit /\ RecoverInit /\ SignInit /\ AsideInit
    /\ fk_enforced = TRUE

SpecMarketNext == MarketNext /\ UNCHANGED <<ingestVars, scoreVars, recoverVars, signVars, asideVars>>

SpecMarket == SpecMarketInit /\ [][SpecMarketNext]_vars

\* the ingest requests while time passes
BlendNext ==
    \/ Tick /\ UNCHANGED ingestVars
    \/ \E w \in StockWeights, range \in StockRanges :
           CreateStock("TEST", w, range) /\ UNCHANGED scoreVars
    \/ \E h \in Handlers, req \in IngestRequests :
           IngestCheck(h, req[1], req[2]) /\ UNCHANGED scoreVars
    \/ \E h \in Handlers : IngestAudit(h) /\ UNCHANGED scoreVars
    \/ \E h \in Handlers : IngestPersistAudited(h) /\ UNCHANGED scoreVars
    \/ \E h \in Handlers : IngestPersist(h) /\ UNCHANGED scoreVars
    \/ \E h \in Handlers : IngestApplyRead(h) /\ UNCHANGED scoreVars
    \/ \E h \in Handlers, reply \in MarketReplies :
           IngestApplyWrite(h, reply) /\ UNCHANGED scoreVars

\* the ingest requests where an admin created a second stock
MultiNext ==
    \/ \E w \in StockWeights, range \in StockRanges :
           CreateStock("TEST", w, range)
    \/ CreateStock("ALT", <<60, 40>>, <<0, 10000>>)
    \/ \E h \in Handlers, req \in IngestRequests :
           IngestCheck(h, req[1], req[2])
    \/ \E h \in Handlers : IngestAudit(h)
    \/ \E h \in Handlers : IngestPersistAudited(h)
    \/ \E h \in Handlers : IngestPersist(h)
    \/ \E h \in Handlers : IngestApplyRead(h)
    \/ \E h \in Handlers, reply \in MarketReplies :
           IngestApplyWrite(h, reply)

SpecMultiInit ==
    BookInit /\ IngestInit /\ ScoreInit /\ MarketInit /\ RecoverInit /\ SignInit /\ AsideInit

SpecMultiNext ==
    MultiNext /\ UNCHANGED <<bookVars, scoreVars, marketVars, recoverVars,
                             signVars, asideVars>>

SpecMulti == SpecMultiInit /\ [][SpecMultiNext]_vars

\* GET /market/{symbol}/pressure answered by the running matching service
PressureReply == calculate_market_price(Book)

\* the steps an ingest handler takes by itself once its request is accepted
HandlerStep(h) ==
    \/ IngestPersist(h)
    \/ IngestApplyRead(h)
    \/ IngestApplyWrite(h, PressureReply)

\* the matching service and the ingest service side by side: orders for the
\* listed stock are placed while reality events are ingested, the blender
\* fetching the market price of the book as it stands
TradeNext ==
    \/ \E side \in Sides, price \in RecoverPrices :
           "TEST" \in DOMAIN stocks /\ PlaceOrder(side, price, 10)
               /\ UNCHANGED ingestVars
    \/ CreateStock("TEST", <<60, 40>>, <<0, 10000>>) /\ UNCHANGED bookVars
    \/ \E h \in Handlers : IngestCheck(h, "e1", "valid") /\ UNCHANGED bookVars
    \/ \E h \in Handlers : HandlerStep(h) /\ UNCHANGED bookVars

SpecTradeInit ==
    /\ BookInit /\ IngestInit /\ ScoreInit /\ MarketInit /\ RecoverInit
    /\ SignInit /\ AsideInit
    /\ fk_enforced = TRUE

SpecTradeNext ==
    TradeNext /\ UNCHANGED <<scoreVars, marketVars, recoverVars, signVars, asideVars>>

SpecTrade == SpecTradeInit /\ [][SpecTradeNext]_vars

\* an accepted request runs to its response: the event loop resumes every
\* handler that is ready; requests themselves arrive or not
SpecTradeFair ==
    SpecTrade /\ \A h \in Handlers :
                    WF_vars(HandlerStep(h) /\
                            UNCHANGED <<bookVars, scoreVars, marketVars,
                                        recoverVars, signVars, asideVars>>)

\* the ingest requests served by workers that may die at any point
CrashNext ==
    \/ \E w \in StockWeights, range \in StockRanges :
           CreateStock("TEST", w, range)
    \/ \E h \in Handlers, req \in IngestRequests :
           IngestCheck(h, req[1], req[2])
    \/ \E h \in Handlers : IngestAudit(h)
    \/ \E h \in Handlers : IngestPersistAudited(h)
    \/ \E h \in Handlers : IngestPersist(h)
    \/ \E h \in Handlers : IngestApplyRead(h)
    \/ \E h \in Handlers, reply \in MarketReplies :
           IngestApplyWrite(h, reply)
    \/ \E h \in Handlers, reply \in MarketReplies :
           IngestApplyWriteFailed(h, reply)
    \/ \E h \in Handlers : IngestCrash(h)

SpecCrashInit ==
    BookInit /\ IngestInit /\ ScoreInit /\ MarketInit /\ RecoverInit /\ SignInit /\ AsideInit

SpecCrashNext ==
    CrashNext /\ UNCHANGED <<bookVars, scoreVars, marketVars, recoverVars,
                             signVars, asideVars>>

SpecCrash == SpecCrashInit /\ [][SpecCrashNext]_vars

\* what a handler does by itself once its request is accepted; whether its
\* writes succeed is not the handler's choice
CrashHandlerStep(h) ==
    \/ IngestAudit(h)
    \/ IngestPersistAudited(h)
    \/ IngestPersist(h)
    \/ IngestApplyRead(h)
    \/ \E reply \in MarketReplies : IngestApplyWrite(h, reply)
    \/ \E reply \in MarketReplies : IngestApplyWriteFailed(h, reply)

\* an accepted request runs to its end unless its worker dies
SpecCrashFair ==
    SpecCrash /\ \A h \in Handlers :
                    WF_vars(CrashHandlerStep(h) /\
                            UNCHANGED <<bookVars, scoreVars, marketVars,
                                        recoverVars, signVars, asideVars>>)

SpecBlendInit ==
    BookInit /\ IngestInit /\ ScoreInit /\ MarketInit /\ RecoverInit /\ SignInit /\ AsideInit

SpecBlendNext == BlendNext /\ UNCHANGED <<bookVars, marketVars, recoverVars, signVars, asideVars>>

SpecBlend == SpecBlendInit /\ [][SpecBlendNext]_vars

\* the matching service with failing transactions and restarts
SpecRecoverInit ==
    /\ BookInit /\ IngestInit /\ ScoreInit /\ MarketInit /\ RecoverInit /\ SignInit /\ AsideInit
    /\ fk_enforced = TRUE

SpecRecoverNext ==
    RecoverNext /\ UNCHANGED <<ingestVars, scoreVars, marketVars, signVars, asideVars>>

SpecRecover == SpecRecoverInit /\ [][SpecRecoverNext]_vars

\* signed requests between the producer and the ingest endpoint
SpecSignInit ==
    BookInit /\ IngestInit /\ ScoreInit /\ MarketInit /\ RecoverInit /\ SignInit /\ AsideInit

SpecSignNext ==
    SignNext /\ UNCHANGED <<bookVars, ingestVars, scoreVars, marketVars,
                            recoverVars, asideVars>>

SpecSign == SpecSignInit /\ [][SpecSignNext]_vars

\* the websocket fan-out of the order book API
SpecBroadcastInit ==
    /\ BookInit /\ IngestInit /\ ScoreInit /\ MarketInit /\ RecoverInit
    /\ SignInit /\ AsideInit

SpecBroadcastNext ==
    BroadcastNext /\ UNCHANGED <<bookVars, ingestVars, scoreVars, marketVars,
                                 recoverVars, signVars, threadVars,
                                 bucketVars>>

SpecBroadcast == SpecBroadcastInit /\ [][SpecBroadcastNext]_vars

\* concurrent POST /orders requests of one symbol
SpecThreadInit ==
    /\ BookInit /\ IngestInit /\ ScoreInit /\ MarketInit /\ RecoverInit
    /\ SignInit /\ AsideInit

SpecThreadNext ==
    ThreadNext /\ UNCHANGED <<bookVars, ingestVars, scoreVars, marketVars,
                              recoverVars, signVars, broadcastVars,
                              bucketVars>>

SpecThread == SpecThreadInit /\ [][SpecThreadNext]_vars

\* the pollers sharing the rate limiter
SpecBucketInit ==
    /\ BookInit /\ IngestInit /\ ScoreInit /\ MarketInit /\ RecoverInit
    /\ SignInit /\ AsideInit

SpecBucketNext ==
    BucketNext /\ UNCHANGED <<bookVars, ingestVars, scoreVars, marketVars,
                              recoverVars, signVars, broadcastVars,
                              threadVars>>

SpecBucket == SpecBucketInit /\ [][SpecBucketNext]_vars

(***************************************************************************)
(* Properties of the matching service                                      *)
(***************************************************************************)
\* indices of the trades appended to trade_history by the current step
NewTradeIdx == (Len(trade_history) + 1)..Len(trade_history')

\* in a PlaceOrder step the incoming order is the last Order created
Aggressor == Len(ord')

\* the resting order of a trade of the current step
MakerOf(t) ==
    IF t.buy_order_id = Aggressor THEN t.sell_order_id ELSE t.buy_order_id

\* the trade at index j of the current step is the one that completes e
FilledBy(e, j) ==
    /\ MakerOf(trade_history'[j]) = e
    /\ trade_history'[j].qty = Remaining(ord[e])
    /\ ord'[e].status = "filled"

RECURSIVE SumQty(_)
SumQty(s) == IF s = <<>> THEN 0 ELSE Head(s).qty + SumQty(Tail(s))

\* the trades of trade_history that name order id on either side
TradesOf(id) ==
    SelectSeq(trade_history,
              LAMBDA t : t.buy_order_id = id \/ t.sell_order_id = id)

\* C1 -- Time priority: whenever a step emits a trade against a resting
\* order m, every order that rested on the same side at the same price
\* with an earlier created_at has been filled completely by an earlier
\* trade of that step; no trade hits the later order while the earlier one
\* still rests with remaining quantity.
C1_TimePriority ==
    [][\A i \in NewTradeIdx :
          LET m == MakerOf(trade_history'[i])
          IN  \A e \in orders :
                  ( /\ e # m
                    /\ ord[e].side = ord[m].side
                    /\ ord[e].price = ord[m].price
                    /\ ord[e].created_at < ord[m].created_at )
                  => \E j \in NewTradeIdx : j < i /\ FilledBy(e, j)
      ]_bookVars

\* C1 witness: the last request traded against a resting order while a
\* later order of the same side and price stayed in the queue behind it.
C1_Witness ==
    /\ resp.op = "place"
    /\ \E k \in DOMAIN resp.trades :
          LET t == resp.trades[k]
              m == IF t.buy_order_id = resp.order_id
                   THEN t.sell_order_id ELSE t.buy_order_id
          IN  \E e \in orders :
                  /\ e # resp.order_id
                  /\ ord[e].side = ord[m].side
                  /\ ord[e].price = ord[m].price
                  /\ ord[e].created_at > ord[m].created_at
                  /\ Remaining(ord[e]) > 0

\* side s prefers price p to price q
Better(s, p, q) == IF s = "buy" THEN p > q ELSE p < q

\* the scenario of spec section 8.4, with no cancel in between
ScenarioPlaced ==
    /\ Len(ord) = 4
    /\ \A i \in 1..3 : ord[i].side = "buy" /\ ord[i].qty = 10
    /\ ord[1].price = 100 /\ ord[2].price = 101 /\ ord[3].price = 100
    /\ ord[4].side = "sell" /\ ord[4].price = 99 /\ ord[4].qty = 25
    /\ resp.op = "place" /\ resp.order_id = 4
    /\ ncancel = 0

ScenarioTrades ==
    << [price |-> 101, qty |-> 10, buy_order_id |-> 2, sell_order_id |-> 4],
       [price |-> 100, qty |-> 10, buy_order_id |-> 1, sell_order_id |-> 4],
       [price |-> 100, qty |-> 5,  buy_order_id |-> 3, sell_order_id |-> 4] >>

C3_TradeShape ==
    [][\A i \in NewTradeIdx :
          LET t == trade_history'[i]
              m == MakerOf(t)
              a == Aggressor
              before == SubSeq(trade_history', Len(trade_history) + 1, i - 1)
              aLeft  == ord'[a].qty - SumQty(before)
          IN  /\ t.price = ord[m].price
              /\ t.qty > 0
              /\ t.qty = Min(aLeft, Remaining(ord[m]))
              /\ m # a
              /\ ord'[t.buy_order_id].side = "buy"
              /\ ord'[t.sell_order_id].side = "sell"
      ]_bookVars

\* C3 witness: a trade whose price differs from the aggressor's limit.
C3_Witness ==
    /\ resp.op = "place"
    /\ \E k \in DOMAIN resp.trades :
          /\ resp.trades[k].price # ord[resp.order_id].price
          /\ resp.trades[k].qty < ord[resp.order_id].qty

\* the status of a record agrees with its filled quantity
StatusMatchesFill(o) ==
    /\ 0 <= o.filled /\ o.filled <= o.qty
    /\ o.status = "filled" <=> o.filled = o.qty
    /\ o.status \in {"open", "partial", "filled", "cancelled"}

RestingStatus(o) ==
    /\ o.status \in {"open", "partial"}
    /\ o.status = "open" <=> o.filled = 0
    /\ o.status = "partial" <=> (0 < o.filled /\ o.filled < o.qty)

Terminal(o) == o.status \in {"cancelled", "filled"}

\* C4 -- Order status invariant: every order has 0 <= filled <= qty and is
\* filled exactly when filled = qty; every order resting in the book, and
\* every persisted row that is open or partial, is open exactly when
\* filled = 0 and partial exactly when 0 < filled < qty; an order (and its
\* row) that is cancelled or filled never changes status or filled again.
C4_OrderStatus ==
    /\ [](/\ \A id \in DOMAIN ord : StatusMatchesFill(ord[id])
          /\ \A id \in orders : RestingStatus(ord[id])
          /\ \A id \in DOMAIN db_orders :
                /\ StatusMatchesFill(db_orders[id])
                /\ db_orders[id].status \in {"open", "partial"}
                      => RestingStatus(db_orders[id]))
    /\ [][/\ \A id \in DOMAIN ord :
                Terminal(ord[id]) => ord'[id] = ord[id]
          /\ \A id \in DOMAIN db_orders :
                Terminal(db_orders[id]) => db_orders'[id] = db_orders[id]
         ]_bookVars

\* C4 witness: a partially filled order was cancelled and a later order
\* was placed while another order rests partially filled.
C4_Witness ==
    /\ resp.op = "place"
    /\ \E id \in DOMAIN ord :
          /\ id < resp.order_id
          /\ ord[id].status = "cancelled"
          /\ ord[id].filled > 0
    /\ \E id \in DOMAIN ord : ord[id].status = "filled"

Last(s) == s[Len(s)]

\* worker h answers its request in this step, coming from one of the stages
Answers(h, stages) == hpc[h] \in stages /\ hpc'[h] = "idle"

\* the answers given so far for event e of the given kind
AnswersOf(e, kind) ==
    {i \in DOMAIN ingest_log :
        ingest_log[i].event_id = e /\ ingest_log[i].kind = kind}

\* C6: idempotent ingest.  The request that persists a valid, correctly
\* signed, non-suspicious event is answered Created, and Created is given at
\* most once per event_id; a Duplicate answer is only given for an event
\* that is already persisted, and the replay adds no Event row, no
\* ScoreChange row and changes no Score row.
C6_IdempotentIngest ==
    /\ [][\A h \in Handlers :
            Answers(h, {"apply_write"}) =>
                Last(ingest_log').kind = "created"]_vars
    /\ [][\A h \in Handlers :
            (Answers(h, {"idle"}) /\ Len(ingest_log') > Len(ingest_log)
                /\ Last(ingest_log').kind = "duplicate") =>
                /\ event_exists(events, Last(ingest_log').event_id)
                /\ events' = events
                /\ score_changes' = score_changes
                /\ scores' = scores]_vars
    /\ [](\A e \in EventIds : Cardinality(AnswersOf(e, "created")) <= 1)

\* C7: in every reachable state, under every interleaving of concurrent
\* ingest requests, the events table holds at most one row per event_id.
C7_UniqueEventId ==
    \A e \in EventIds : Cardinality(RowsOf(events, e)) <= 1

\* two requests raced on one event_id: one inserted the row, the other was
\* stopped by the unique constraint
C7_Witness ==
    \E i \in DOMAIN ingest_log :
        /\ ingest_log[i].kind = "IntegrityError"
        /\ Cardinality(RowsOf(events, ingest_log[i].event_id)) = 1

\* C8: a request whose event was classified as suspicious ends with the
\* Event persisted with processed = false, exactly one pending audit row
\* for it, the PendingReview answer, and neither the scores nor the
\* score_changes log touched.
C8_SuspiciousPending ==
    [][\A h \in Handlers :
          Answers(h, {"audit", "persist_audited"}) =>
              /\ Last(ingest_log').kind = "pending_review"
              /\ \E i \in RowsOf(events', hev[h]) : ~events'[i].processed
              /\ Cardinality({i \in RowsOf(llm_audit', hev[h]) :
                                  ~llm_audit'[i].approved}) = 1
              /\ scores' = scores
              /\ score_changes' = score_changes]_vars

\* an audit row on which an admin has decided (approved_by is set)
Decided(audit) == audit.approved_by # "NULL"

\* this step is a decide request on audit a
DecideStep(a) == ndecide' = ndecide + 1 /\ aresp'.audit_id = a

\* C9: an audit is decided exactly once.  A decide request on an audit that
\* was already approved or rejected is answered 409 and changes neither the
\* audit, the events nor the scores; and a decided audit is not listed as
\* pending.
C9_DecidedOnce ==
    /\ [][\A a \in DOMAIN llm_audit :
            (DecideStep(a) /\ Decided(llm_audit[a])) =>
                /\ aresp'.code = 409
                /\ llm_audit' = llm_audit
                /\ events' = events
                /\ scores' = scores]_vars
    /\ [](\A a \in DOMAIN llm_audit :
            Decided(llm_audit[a]) =>
                \A i \in DOMAIN ListPending : ListPending[i].id # a)

\* C10: approving a pending audit applies its event as the normal ingest
\* path would at that moment: the Score row and the score_changes log get
\* what apply_event_to_scores writes, the event is marked processed and the
\* audit approved.
C10_ApproveApplies ==
    [][\A a \in DOMAIN llm_audit :
          (DecideStep(a) /\ ~Decided(llm_audit[a]) /\ aresp'.code = 200
              /\ aresp'.status = "approved"
              /\ event_exists(events, llm_audit[a].event_id)) =>
              LET e         == llm_audit[a].event_id
                  symbol    == EventCatalog[e].symbol
                  old_score == scores[symbol].reality_score
                  new_score == compute_new_reality_score(
                                   old_score, EventCatalog[e].impact_points)
              IN  /\ \E mp \in MarketPrices :
                        scores' = [scores EXCEPT ![symbol] =
                            ScoreRow(e, new_score, mp, stocks[symbol])]
                  /\ score_changes' = Append(score_changes,
                        ScoreChangeRow(e, old_score, new_score))
                  /\ \A i \in RowsOf(events', e) : events'[i].processed
                  /\ llm_audit'[a].approved]_vars

\* an audit row an admin has rejected
Rejected(audit) == Decided(audit) /\ ~audit.approved

\* C11: once an audit is rejected its event stays processed = false and
\* gets no ScoreChange, whatever request follows (further decide requests,
\* replays of the event).
C11_RejectedStaysUnprocessed ==
    [][\A a \in DOMAIN llm_audit :
          (Rejected(llm_audit[a])
              /\ \A i \in RowsOf(events, llm_audit[a].event_id) :
                    ~events[i].processed) =>
              /\ \A i \in RowsOf(events', llm_audit[a].event_id) :
                    ~events'[i].processed
              /\ \A i \in DOMAIN score_changes' :
                    score_changes'[i].event_id = llm_audit[a].event_id =>
                        i \in DOMAIN score_changes]_vars

\* C12: score bounds.  In every reachable state every Score row has
\* 0 <= reality_score <= 100, 0 <= final_price <= 100 and
\* 0 <= confidence <= 1.
C12_ScoreBounds == \A symbol \in DOMAIN scores : ScoreInBounds(scores[symbol])

(***************************************************************************)
(* Properties of score reads                                               *)
(***************************************************************************)
\* this step is a read of a stored score
ReadStep == read' # read /\ read'.src # "none" /\ read'.found

\* the stored score a read started from
StoredScore(r) ==
    IF r.src = "engine" THEN r.stored.score ELSE r.stored.reality_score

\* the neutral score in the unit of the reader
NeutralOf(src) == IF src = "engine" THEN NEUTRAL_SCORE ELSE 5000

\* C13: lazy decay is a non-persisting read.  A read returns the stored
\* score decayed toward 50 by the time elapsed since last_updated, leaves
\* the stored rows as they are, and a second read at the same instant of
\* the same stored row returns the same value.
C13_LazyDecayRead ==
    [][ReadStep =>
          /\ read'.score = Decay(StoredScore(read'),
                                 NeutralOf(read'.src),
                                 read'.at - read'.stored.last_updated)
          /\ scores' = scores
          /\ score_record' = score_record
          /\ (read.src = read'.src /\ read.found /\ read.at = read'.at
                 /\ read.stored = read'.stored) => read'.score = read.score]_vars

(***************************************************************************)
(* Properties of cancellation and of the market price                      *)
(***************************************************************************)
\* this step is a cancel request that the engine accepted
CancelStep == ncancel' = ncancel + 1 /\ resp'.code = 200

\* a level (or the ladder) without one entry, the others in their order
Without(level, x) == SelectSeq(level, LAMBDA y : y # x)

\* side `levels`/`ladder` after order id at price p was taken out of it
SideAfterCancel(levels, ladder, levels2, ladder2, p, id) ==
    /\ \A q \in DOMAIN levels \ {p} :
          q \in DOMAIN levels2 /\ levels2[q] = levels[q]
    /\ DOMAIN levels2 \subseteq DOMAIN levels
    /\ IF Without(levels[p], id) = <<>>
       THEN p \notin DOMAIN levels2 /\ ladder2 = Without(ladder, p)
       ELSE /\ p \in DOMAIN levels2
            /\ levels2[p] = Without(levels[p], id)
            /\ ladder2 = ladder

\* C14: cancelling a resting (open or partial) order takes it out of its
\* price level, drops the level from the ladder when it became empty, sets
\* status = cancelled and keeps its filled quantity; every other order, its
\* filled quantity and the FIFO order of every level stay as they were.
C14_CancelFrame ==
    [][CancelStep =>
          LET id == resp'.order_id
              o  == ord[id]
          IN  /\ o.status \in {"open", "partial"}
              /\ ord'[id] = [o EXCEPT !.status = "cancelled"]
              /\ resp'.status = "cancelled" /\ resp'.filled = o.filled
              /\ \A j \in DOMAIN ord : j # id => ord'[j] = ord[j]
              /\ orders' = orders \ {id}
              /\ IF o.side = "buy"
                 THEN /\ SideAfterCancel(bids, bid_prices, bids', bid_prices',
                                         o.price, id)
                      /\ asks' = asks /\ ask_prices' = ask_prices
                 ELSE /\ SideAfterCancel(asks, ask_prices, asks', ask_prices',
                                         o.price, id)
                      /\ bids' = bids /\ bid_prices' = bid_prices
              /\ db_orders'[id].status = "cancelled"
              /\ db_orders'[id].filled = o.filled
              /\ \A j \in DOMAIN db_orders : j # id => db_orders'[j] = db_orders[j]
              /\ trade_history' = trade_history]_vars

\* a partially filled order was cancelled: its fill is kept and its level,
\* now empty, is gone from the book
C14_Witness ==
    /\ resp.op = "cancel" /\ resp.code = 200
    /\ resp.filled > 0
    /\ ord[resp.order_id].status = "cancelled"
    /\ ord[resp.order_id].filled = resp.filled
    /\ ord[resp.order_id].price \notin DOMAIN bids \cup DOMAIN asks

\* C15: a cancel request for an order that is already filled or cancelled
\* is a no-op that answers with the order's current status: it does not
\* fail and changes neither the book nor the persisted orders.
C15_TerminalCancelNoop ==
    [][(ncancel' = ncancel + 1 /\ resp'.order_id \in DOMAIN ord
            /\ Terminal(ord[resp'.order_id])) =>
          /\ resp'.code = 200
          /\ resp'.status = ord[resp'.order_id].status
          /\ <<ord, bids, asks, bid_prices, ask_prices, orders>>' =
                 <<ord, bids, asks, bid_prices, ask_prices, orders>>
          /\ db_orders' = db_orders]_vars

\* the price the claimed fallback chain gives for the current book, in
\* hundredths: mid, else best bid, else best ask, else last trade, else 50.0
ChainPrice ==
    IF bid_prices # <<>> /\ ask_prices # <<>>
        THEN (100 * (bid_prices[1] + ask_prices[1])) \div 2
    ELSE IF bid_prices # <<>> THEN 100 * bid_prices[1]
    ELSE IF ask_prices # <<>> THEN 100 * ask_prices[1]
    ELSE IF trade_history # <<>>
        THEN 100 * trade_history[Len(trade_history)].price
    ELSE 5000

\* C19: in every book state reachable by place and cancel requests the
\* market price is the mid when both sides rest, else the best bid, else
\* the best ask, else the price of the last trade, else 50.0.
C19_MarketPriceChain == calculate_market_price(Book) = ChainPrice

\* C16: a market order never rests.  After a market order was placed it is
\* in no price level, and when it could not be filled completely its
\* remainder is cancelled.
C16_MarketNeverRests ==
    \A id \in DOMAIN ord :
        req_type[id] = "market" =>
            /\ id \notin orders
            /\ \A p \in DOMAIN bids : id \notin SeqToSet(bids[p])
            /\ \A p \in DOMAIN asks : id \notin SeqToSet(asks[p])
            /\ Remaining(ord[id]) > 0 => ord[id].status = "cancelled"

(***************************************************************************)
(* Properties of the ingest endpoint's answers                             *)
(***************************************************************************)
Rejections == {"unauthorized", "invalid_json", "validation", "bad_request"}

\* this step answers an ingest request with a rejection
RejectStep ==
    /\ Len(ingest_log') = Len(ingest_log) + 1
    /\ Last(ingest_log').kind \in Rejections

\* C17: validation is fail-fast in the order signature, schema,
\* idempotency, symbols, suspicion.  A request whose signature is missing
\* or does not match is answered unauthorized whatever its body is; a
\* schema failure is reported before an unknown symbol; and a rejected
\* request changes no table.
C17_ValidationOrder ==
    /\ [](\A i \in DOMAIN ingest_log :
            /\ ingest_log[i].sig # "valid" =>
                   ingest_log[i].kind = "unauthorized"
            /\ (ingest_log[i].sig = "valid"
                   /\ ~SchemaValid(ingest_log[i].event_id)) =>
                   ingest_log[i].kind = "validation"
            /\ ingest_log[i].kind = "bad_request" =>
                   SchemaValid(ingest_log[i].event_id))
    /\ [][RejectStep =>
            <<stocks, scores, events, llm_audit, score_changes>>' =
            <<stocks, scores, events, llm_audit, score_changes>>]_vars

\* the status code the contract gives each outcome
ContractCode(kind) ==
    CASE kind = "created" -> 201
      [] kind = "duplicate" -> 200
      [] kind = "pending_review" -> 202
      [] kind = "unauthorized" -> 401
      [] kind = "bad_request" -> 400
      [] kind = "validation" -> 422

\* C18: every outcome of the ingest endpoint has its own status code:
\* Created 201, Duplicate 200, PendingReview 202, unauthorized 401,
\* bad_request 400, validation 422.
C18_StatusCodes ==
    \A i \in DOMAIN ingest_log :
        ingest_log[i].kind \in {"created", "duplicate", "pending_review",
                                "unauthorized", "bad_request", "validation"} =>
            ingest_log[i].code = ContractCode(ingest_log[i].kind)

\* C20: when the market price could not be fetched during a blender pass,
\* the pass still completes and stores final_price = reality_score; no
\* default market price is blended in.
C20_NoMarketNoBlend ==
    [][\A h \in Handlers :
          (hpc[h] = "apply_write" /\ hpc'[h] = "idle" /\ ~hloc'[h].fetched) =>
              LET symbol == EventCatalog[hev[h]].symbol
              IN  /\ scores'[symbol].reality_score = hloc[h].new_score
                  /\ scores'[symbol].final_price =
                         scores'[symbol].reality_score]_vars

(***************************************************************************)
(* Properties of the blender pass                                          *)
(***************************************************************************)
\* worker h commits its blender pass in this step
CommitStep(h) == hpc[h] = "apply_write" /\ hpc'[h] = "idle"

\* C21: smoothed commit.  Every blender commit persists
\* final_price = clamp(0.25 * final_raw + 0.75 * final_prev), final_prev
\* being the final_price persisted before and final_raw the weighted sum of
\* market price and reality score, both clamped to [min_price, max_price].
C21_SmoothedCommit ==
    [][\A h \in Handlers :
          CommitStep(h) =>
              LET symbol == EventCatalog[hev[h]].symbol
                  s      == stocks[symbol]
                  final_prev == scores[symbol].final_price
              IN  \E market_price \in MarketPrices :
                      LET final_raw ==
                              Clamp((s[1] * market_price
                                     + s[2] * scores'[symbol].reality_score)
                                        \div 100, s[3], s[4])
                      IN  scores'[symbol].final_price =
                              Clamp((EWMA_ALPHA * final_raw
                                     + (100 - EWMA_ALPHA) * final_prev)
                                        \div 100, s[3], s[4])]_vars

\* the stored score of a symbol decayed to the current time, in hundredths
DecayedScore(symbol) ==
    Decay(scores[symbol].reality_score, 5000,
          now - scores[symbol].last_updated)

\* C22: applying an event with impact_points x to a symbol whose decayed
\* score is d persists reality_score = clamp(d + 0.25 * clamp(x, -20, 20),
\* 0, 100), which is within 5 points of d, and appends exactly one
\* ScoreChange with old_score d and that new score.
C22_EventMovesDecayedScore ==
    [][\A h \in Handlers :
          CommitStep(h) =>
              LET e      == hev[h]
                  symbol == EventCatalog[e].symbol
                  d      == DecayedScore(symbol)
                  x      == Clamp(EventCatalog[e].impact_points,
                                  -DELTA_CAP, DELTA_CAP)
                  new    == Clamp(d + (EWMA_ALPHA * x), 0, 10000)
              IN  /\ scores'[symbol].reality_score = new
                  /\ Abs(scores'[symbol].reality_score - d) <= 500
                  /\ score_changes' =
                         Append(score_changes, ScoreChangeRow(e, d, new))]_vars

\* C23: confidence is monotone.  Across any sequence of applied events the
\* persisted confidence of a symbol never decreases, and it never exceeds 1.
C23_ConfidenceMonotone ==
    /\ [][\A symbol \in DOMAIN scores :
            scores'[symbol].confidence >= scores[symbol].confidence]_vars
    /\ [](\A symbol \in DOMAIN scores : scores[symbol].confidence <= 100)

(***************************************************************************)
(* Properties of failure and recovery of the matching service              *)
(***************************************************************************)
\* this step is a restart of the matching service
RestartStep == resp'.op = "restart"

\* C24: recovery round trip.  After any sequence of successful PlaceOrder
\* and CancelOrder requests, a restart that replays the persisted open and
\* partial orders by created_at, without matching them, rebuilds the book
\* that was in memory: the same resting orders with the same filled
\* quantities and statuses, in the same FIFO order within each level, and
\* no filled or cancelled order.
C24_RecoveryRoundTrip ==
    [][(RestartStep /\ ~persist_failed) =>
          /\ bids' = bids /\ asks' = asks
          /\ bid_prices' = bid_prices /\ ask_prices' = ask_prices
          /\ orders' = orders
          /\ \A id \in orders : ord'[id] = ord[id]
          /\ \A id \in orders' : ord'[id].status \in {"open", "partial"}
          /\ \A p \in DOMAIN bids' : SeqToSet(bids'[p]) \subseteq orders'
          /\ \A p \in DOMAIN asks' : SeqToSet(asks'[p]) \subseteq orders']_vars

\* the service was restarted with a level holding a partially filled order
\* in front of a later one, after another order had been filled
C24_Witness ==
    /\ resp.op = "restart" /\ ~persist_failed
    /\ \E p \in DOMAIN bids \cup DOMAIN asks :
          LET level == IF p \in DOMAIN bids THEN bids[p] ELSE asks[p]
          IN  /\ Len(level) = 2
              /\ ord[level[1]].status = "partial"
              /\ ord[level[1]].created_at < ord[level[2]].created_at
    /\ \E id \in DOMAIN ord : ord[id].status = "filled"

\* this step is a PlaceOrder request whose persistence failed
FailStep == persist_failed' /\ ~persist_failed

\* C25: if persisting a PlaceOrder fails, the caller gets an error and no
\* partial state remains: the book in memory (resting orders, maker fills)
\* is the one before the request and holds exactly the open and partial
\* orders of the persisted table, with their filled quantities; the failed
\* order and its trades are neither in memory nor persisted.
C25_FailedPersistLeavesNothing ==
    [][FailStep =>
          /\ resp'.code = 500
          /\ db_orders' = db_orders /\ trade_history' = trade_history
          /\ bids' = bids /\ asks' = asks
          /\ bid_prices' = bid_prices /\ ask_prices' = ask_prices
          /\ orders' = orders
          /\ \A id \in orders : ord'[id] = ord[id]
          /\ orders' = SeqToSet(load_active_orders(db_orders'))
          /\ \A id \in orders' : ord'[id].filled = db_orders'[id].filled]_vars

(***************************************************************************)
(* Properties of signing                                                   *)
(***************************************************************************)
\* what a dict says, whatever the order of its keys
ContentOf(obj) == SeqToSet(obj)

ImpactValues == -25..25

\* the answers that say how an event was classified: the request carried a
\* valid signature and was neither a replay nor about an unknown symbol
Classified ==
    {i \in DOMAIN ingest_log :
        /\ ingest_log[i].sig = "valid"
        /\ ingest_log[i].kind \notin {"duplicate", "bad_request"}}

\* C27: ingest classifies an otherwise valid event by |impact_points| with
\* strict thresholds: |x| <= 15 is not suspicious, 15 < |x| <= 20 is
\* diverted to audit and answered PendingReview, and |x| > 20 is rejected
\* as a validation error that changes no Event, AuditRecord or Score.
C27_ImpactThresholds ==
    /\ [](\A x \in ImpactValues :
            /\ Abs(x) <= 15 => ImpactInRange(x) /\ ~ImpactSuspicious(x)
            /\ (15 < Abs(x) /\ Abs(x) <= 20) =>
                   ImpactInRange(x) /\ ImpactSuspicious(x)
            /\ Abs(x) > 20 => ~ImpactInRange(x))
    /\ [](\A i \in Classified :
            LET x == EventCatalog[ingest_log[i].event_id].impact_points
            IN  /\ Abs(x) <= 15 =>
                       ingest_log[i].kind \notin {"pending_review", "validation"}
                /\ (15 < Abs(x) /\ Abs(x) <= 20) =>
                       ingest_log[i].kind = "pending_review"
                /\ Abs(x) > 20 => ingest_log[i].kind = "validation")
    /\ [][(Len(ingest_log') = Len(ingest_log) + 1
             /\ Last(ingest_log').kind = "validation") =>
            <<events, llm_audit, scores, score_changes>>' =
            <<events, llm_audit, scores, score_changes>>]_vars

RECURSIVE SumImpact(_)
SumImpact(rows) ==
    IF rows = <<>> THEN 0 ELSE Head(rows).impact_points + SumImpact(Tail(rows))

RECURSIVE SumAbsImpact(_)
SumAbsImpact(rows) ==
    IF rows = <<>> THEN 0
    ELSE Abs(Head(rows).impact_points) + SumAbsImpact(Tail(rows))

\* the processed events of a symbol; every event of the model is younger
\* than 24 h
RecentProcessed(symbol) ==
    SelectSeq(events, LAMBDA r : r.symbol = symbol /\ r.processed)

\* the single-source rule for event e: the share of its primary source in
\* the impact of the last 24 h, its own impact counted in, exceeds 0.35
SingleSourceExceeded(e) ==
    LET recent == RecentProcessed(EventCatalog[e].symbol)
        own    == SelectSeq(recent,
                            LAMBDA r : r.source = EventCatalog[e].source)
        source_impact == Abs(SumImpact(own) + EventCatalog[e].impact_points)
        total_impact  == SumAbsImpact(recent)
    IN  total_impact > 0 /\ 100 * source_impact > 35 * total_impact

\* C28: single-source rule.  An event that passed the checks before the
\* suspicion check is diverted to audit when the share of its primary
\* source in the impact of the processed events of the last 24 h for its
\* symbol, its own impact included, exceeds 0.35.
C28_SingleSourceRule ==
    [][\A h \in Handlers :
          (hpc[h] = "idle" /\ hpc'[h] \in {"audit", "persist"}
              /\ SingleSourceExceeded(hev'[h])) =>
              hpc'[h] = "audit"]_vars

\* the ScoreChange rows of event e for a symbol
ChangesOf(changes, e, symbol) ==
    {i \in DOMAIN changes :
        changes[i].event_id = e /\ changes[i].symbol = symbol}

\* C29: a non-suspicious event whose stocks list names several existing
\* symbols is applied to every listed symbol: when its ingest commits, the
\* Score of each listed symbol has moved by the event, from that symbol's
\* own score, and each listed symbol has one ScoreChange for the event.
C29_AllListedSymbols ==
    [][\A h \in Handlers :
          CommitStep(h) =>
              \A symbol \in SeqToSet(EventCatalog[hev[h]].stocks) :
                  /\ scores'[symbol].reality_score =
                         compute_new_reality_score(
                             scores[symbol].reality_score,
                             EventCatalog[hev[h]].impact_points)
                  /\ Cardinality(ChangesOf(score_changes', hev[h], symbol)) = 1
      ]_vars

\* the persisted final_price of the symbol is the blend of its reality
\* score with the market price the book has now
FinalPriceCurrent(symbol) ==
    /\ symbol \in DOMAIN scores
    /\ scores[symbol].final_price =
           blend_final_price(scores[symbol].reality_score,
                             calculate_market_price(Book),
                             stocks[symbol][1], stocks[symbol][2])

\* the last request of the matching service was order n and it traded
TradeCommitted(n) ==
    resp.op = "place" /\ resp.order_id = n /\ resp.trades # <<>>

\* C30: whenever a trade commits for a symbol, a blender pass for the symbol
\* eventually runs: once order n has traded, the persisted final_price of
\* the symbol becomes the blend with the market price of the book, or a
\* later order arrives first; no reality event is needed for that.
C30_TradeTriggersBlend ==
    \A n \in 1..MaxOrders :
        TradeCommitted(n) ~> (Len(ord) > n \/ FinalPriceCurrent("TEST"))

(***************************************************************************)
(* Properties of the websocket fan-out                                     *)
(***************************************************************************)
\* C31: a subscriber that fails or disconnects during the fan-out, in any
\* interleaving with other broadcasts and with the connect and disconnect
\* handlers, is dropped from the active set and never makes the request
\* fail: every finished request was answered with success and none of the
\* connections its sends failed on is still subscribed.
C31_BroadcastNeverFailsCaller ==
    \A r \in Callers :
        bpc[r] = "done" =>
            /\ bresp[r] = 200
            /\ \A c \in SeqToSet(disconnected[r]) :
                   c \notin SeqToSet(active_connections)

(***************************************************************************)
(* Properties of concurrent requests                                       *)
(***************************************************************************)
\* the ScoreChange rows of a symbol before row i
EarlierChanges(i) ==
    {j \in 1..(i - 1) : score_changes[j].symbol = score_changes[i].symbol}

\* the rows of a symbol in score_changes, as indices
SymbolChanges(symbol) ==
    {i \in DOMAIN score_changes : score_changes[i].symbol = symbol}

\* C32: score updates of one symbol are atomic and totally ordered: events
\* applied concurrently to a symbol leave the Score row and the ScoreChange
\* log of applying them one after the other, so each ScoreChange's old_score
\* is the new_score of the symbol's previous ScoreChange and the Score row
\* holds the new_score of the symbol's last ScoreChange.
C32_ScoreUpdatesSerial ==
    /\ \A i \in DOMAIN score_changes :
           EarlierChanges(i) # {} =>
               LET prev == CHOOSE j \in EarlierChanges(i) :
                               \A k \in EarlierChanges(i) : k <= j
               IN  score_changes[i].old_score = score_changes[prev].new_score
    /\ \A symbol \in DOMAIN scores :
           SymbolChanges(symbol) # {} =>
               LET last == CHOOSE j \in SymbolChanges(symbol) :
                               \A k \in SymbolChanges(symbol) : k <= j
               IN  scores[symbol].reality_score = score_changes[last].new_score

\* C33: operations on one order book are serialized and there is exactly
\* one book per symbol, so no placed order is lost: the orders of the
\* finished PlaceOrder requests of a symbol are, each once, the orders the
\* symbol's book has received, as after some sequential order of the
\* requests.
C33_OneBookPerSymbol ==
    \A t \in Threads :
        tpc[t] = "done" =>
            /\ "TEST" \in DOMAIN books
            /\ Cardinality({i \in DOMAIN book_objs[books["TEST"]] :
                               book_objs[books["TEST"]][i] = t}) = 1

(***************************************************************************)
(* Properties of failing ingest requests                                   *)
(***************************************************************************)
\* some handler is still serving a request for event e
InFlight(e) == \E h \in Handlers : hpc[h] # "idle" /\ hev[h] = e

\* C34: ingest is all-or-nothing per event: once no request for an event is
\* being served, crashed or not, there is no AuditRecord whose Event is not
\* persisted and no suspicious Event persisted without an AuditRecord.
C34_IngestAllOrNothing ==
    /\ \A i \in DOMAIN llm_audit :
           event_exists(events, llm_audit[i].event_id)
               \/ InFlight(llm_audit[i].event_id)
    /\ \A i \in DOMAIN events :
           Suspicious(events[i].event_id) =>
               \/ \E j \in DOMAIN llm_audit :
                      llm_audit[j].event_id = events[i].event_id
               \/ InFlight(events[i].event_id)

\* C35: if the score update of a non-suspicious event fails to persist, the
\* event remains processed = false, the Score row is unchanged and no
\* ScoreChange exists for the event.
C35_FailedUpdateLeavesNothing ==
    [][\A h \in Handlers :
          (\E reply \in MarketReplies : IngestApplyWriteFailed(h, reply)) =>
              /\ scores' = scores
              /\ \A i \in RowsOf(events', hev[h]) : ~events'[i].processed
              /\ ChangesOf(score_changes', hev[h],
                           EventCatalog[hev[h]].symbol) = {}
      ]_vars

\* a request for e1 ended with status 500 and left e1 persisted, not
\* processed and without a ScoreChange, no other request for e1 in flight
C35_Witness ==
    /\ ~InFlight("e1")
    /\ \E i \in DOMAIN ingest_log :
           /\ ingest_log[i].event_id = "e1"
           /\ ingest_log[i].kind = "NameError" /\ ingest_log[i].code = 500
    /\ RowsOf(events, "e1") # {}
    /\ \A i \in RowsOf(events, "e1") : ~events[i].processed
    /\ ChangesOf(score_changes, "e1", "TEST") = {}

\* event e is persisted and all its rows are processed
Applied(e) ==
    /\ RowsOf(events, e) # {}
    /\ \A i \in RowsOf(events, e) : events[i].processed

\* event e was accepted and persisted, is not processed, no request for it
\* is being served, and a replay of it was answered Duplicate
StuckUnprocessed(e) ==
    /\ RowsOf(events, e) # {}
    /\ ~Applied(e)
    /\ ~InFlight(e)
    /\ AnswersOf(e, "duplicate") # {}

\* C36: whenever the ingest answers Created for an event, the event is
\* processed = true and has its ScoreChange; and a non-suspicious event that
\* was accepted but not applied is not left unprocessed for ever while its
\* replays are answered Duplicate: it is processed eventually.
C36_AcceptedIsApplied ==
    /\ [](\A e \in EventIds :
             AnswersOf(e, "created") # {} =>
                 Applied(e) /\ ChangesOf(score_changes, e,
                                         EventCatalog[e].symbol) # {})
    /\ \A e \in EventIds :
           (~Suspicious(e) /\ StuckUnprocessed(e)) ~> Applied(e)

Queued(side) == UNION {SeqToSet(side[p]) : p \in DOMAIN side}

\* a price list is strictly monotone: descending for bids, ascending for asks
StrictlyDesc(s) == \A i \in 1..(Len(s) - 1) : s[i] > s[i + 1]

StrictlyAsc(s) == \A i \in 1..(Len(s) - 1) : s[i] < s[i + 1]

\* no order id is queued twice in the levels of one side
QueuedOnce(side) ==
    \A p \in DOMAIN side, q \in DOMAIN side :
        \A i \in DOMAIN side[p], j \in DOMAIN side[q] :
            side[p][i] = side[q][j] => (p = q /\ i = j)

\* C38: the book structure stays consistent after every PlaceOrder and
\* CancelOrder: no price level is empty, the sorted price lists hold exactly
\* the prices that have a level (bids strictly decreasing, asks strictly
\* increasing), the order_id map holds exactly the orders queued in some
\* level, and no order in a level or in the map is filled or cancelled.
C38_BookConsistent ==
    /\ \A p \in DOMAIN bids : bids[p] # <<>>
    /\ \A p \in DOMAIN asks : asks[p] # <<>>
    /\ SeqToSet(bid_prices) = DOMAIN bids /\ StrictlyDesc(bid_prices)
    /\ SeqToSet(ask_prices) = DOMAIN asks /\ StrictlyAsc(ask_prices)
    /\ orders = Queued(bids) \cup Queued(asks)
    /\ Queued(bids) \cap Queued(asks) = {}
    /\ QueuedOnce(bids) /\ QueuedOnce(asks)
    /\ \A id \in orders :
           /\ ord[id].status \in {"open", "partial"}
           /\ ord[id].filled < ord[id].qty

\* after an order that traded, with a partly filled order resting and two
\* or more price levels left
C38_Witness ==
    /\ resp.op = "place" /\ resp.trades # <<>>
    /\ \E id \in orders : ord[id].status = "partial"
    /\ Len(bid_prices) + Len(ask_prices) >= 2

\* C39: two concurrent Decide calls on one pending AuditRecord give exactly
\* one successful decision: a decide request is answered with success only
\* on a record no earlier request decided (the other fails with
\* already_processed), and an audited event has at most one ScoreChange for
\* its symbol.
C39_SingleDecision ==
    /\ [][\A a \in DOMAIN llm_audit :
             (DecideStep(a) /\ aresp'.code = 200) => ~Decided(llm_audit[a])
         ]_vars
    /\ [](\A a \in DOMAIN llm_audit :
             Cardinality(ChangesOf(score_changes, llm_audit[a].event_id,
                                   llm_audit[a].symbol)) <= 1)

(***************************************************************************)
(* Properties of the rate limiter                                          *)
(***************************************************************************)
\* C40: the token bucket enforces its limit under concurrency: in any
\* interleaving of consume calls of several pollers the number of calls that
\* returned true is at most the capacity plus the tokens refilled by the
\* elapsed time, and the stored token count stays within [0, capacity].
C40_BucketLimit ==
    /\ granted <= BucketCapacity + bucket_time
    /\ redis_tokens # Nil =>
           (redis_tokens >= 0 /\ redis_tokens <= BucketCapacity)

=============================================================================
